---- MODULE Spec2Model ----
(***************************************************************************)
(* Series materialization of cloud-dicom-downloader: SeriesDirectory and   *)
(* make_unique_dir of crawlers/_utils.py, driven by the per-series loop of *)
(* the crawlers (xa_data._do_run, hinacom.download_all); and the functions *)
(* pathify and parse_dcm_value of crawlers/_utils.py and _write_dicom of   *)
(* the crawlers, each applied to arguments drawn from bounded sets.        *)
(*                                                                         *)
(* A str is a sequence of one-character strings, a Path is a sequence of   *)
(* components (each a str).  The file system is the set of directories,    *)
(* the set of regular files and the set of directories that refuse new     *)
(* entries.                                                                *)
(***************************************************************************)
EXTENDS Integers, Sequences, FiniteSets, TLC

VARIABLES
    dirs,      \* the directories that exist (Paths)
    files,     \* the regular files: records [path, by, idx]
    ro,        \* directories in which entries cannot be created (EACCES)
    series,    \* the SeriesDirectory objects built so far, in order
    pending,   \* the nested make_unique_dir call about to run, or NoCall
    lastErr,   \* exception raised by the last operation, "" if it returned
    ret,       \* Path returned by the last get, or None
    op,        \* the last operation taken and its arguments
    arg,       \* the arguments of the function applied on its own, or NoArg
    out        \* what that function returned or raised, or NoOut

vars == <<dirs, files, ro, series, pending, lastErr, ret, op, arg, out>>

\* Python's None, for a Path (no Path has an empty component), for a series
\* number (series numbers are >= 0) and for a call.
None == << <<>> >>
NoNumber == 0 - 1

\* no function called on its own, nothing returned yet
NoArg == [fn |-> "none"]
NoOut == [done |-> FALSE]

(***************************************************************************)
(* Bounds of the model.                                                    *)
(***************************************************************************)
MaxSeries == 2      \* series per crawl
MaxSize == 1        \* instances per series in a crawl
MaxPre == 2         \* directories X, X (1), .. present before the crawl
MaxCount == 12      \* largest instance_count given to the constructor alone
MaxIndex == 11      \* largest index given to get alone
DeepSeries == 1     \* series crawled into the study directory of SpecDeep

\* CPython's default recursion limit, which bounds the nesting of
\* make_unique_dir's call to itself (the frames of its callers not counted).
RecursionLimit == 1000

(***************************************************************************)
(* str and int conversions                                                 *)
(***************************************************************************)
Digits == <<"0", "1", "2", "3", "4", "5", "6", "7", "8", "9">>

IsDigit(c) == \E i \in 1..Len(Digits) : Digits[i] = c

DigitVal(c) == (CHOOSE i \in 1..Len(Digits) : Digits[i] = c) - 1

\* int(s) for a str of decimal digits
RECURSIVE int(_)
int(s) ==
    IF Len(s) = 0 THEN 0
    ELSE 10 * int(SubSeq(s, 1, Len(s) - 1)) + DigitVal(s[Len(s)])

\* str(n), f"{n}" for n >= 0
RECURSIVE str(_)
str(n) ==
    IF n < 10 THEN <<Digits[n + 1]>>
    ELSE str(n \div 10) \o <<Digits[(n % 10) + 1]>>

\* int(math.log10(size)) for size >= 1
RECURSIVE ilog10(_)
ilog10(n) == IF n < 10 THEN 0 ELSE 1 + ilog10(n \div 10)

IsSpace(c) == c \in {" ", "\t", "\n"}

\* str.strip()
RECURSIVE strip(_)
strip(s) ==
    IF Len(s) = 0 THEN s
    ELSE IF IsSpace(s[1]) THEN strip(Tail(s))
    ELSE IF IsSpace(s[Len(s)]) THEN strip(SubSeq(s, 1, Len(s) - 1))
    ELSE s

\* str.zfill(width): zeros go after a leading sign
zfill(s, width) ==
    LET pad == [i \in 1..(width - Len(s)) |-> "0"]
    IN  IF Len(s) >= width THEN s
        ELSE IF Len(s) > 0 /\ s[1] \in {"+", "-"} THEN <<s[1]>> \o pad \o Tail(s)
        ELSE pad \o s

(***************************************************************************)
(* pathify                                                                 *)
(***************************************************************************)
illegal_path_chars == {"<", ">", ":", "\"", "/", "\\", "?", "*", "|"}

\* Full-width characters are written as their code points.
to_full_width(char) ==
    IF char = ":" THEN "U+FF1A"
    ELSE IF char = "*" THEN "U+FF0A"
    ELSE IF char = "?" THEN "U+FF1F"
    ELSE IF char = "\"" THEN "'"
    ELSE IF char = "|" THEN "U+FF5C"
    ELSE IF char = "<" THEN "U+FF1C"
    ELSE IF char = ">" THEN "U+FF1E"
    ELSE IF char = "/" THEN "U+FF0F"
    ELSE IF char = "\\" THEN "U+FF3C"
    ELSE char

pathify(text) ==
    LET t == strip(text)
    IN  [i \in 1..Len(t) |->
            IF t[i] \in illegal_path_chars THEN to_full_width(t[i]) ELSE t[i]]

(***************************************************************************)
(* Paths and the file system                                               *)
(***************************************************************************)
Cwd == <<>>
DownloadDir == << <<"d">> >>
StudyDir == << <<"d">>, <<"s">> >>

Name(p) == IF Len(p) = 0 THEN <<>> ELSE p[Len(p)]

Parent(p) == IF Len(p) = 0 THEN p ELSE SubSeq(p, 1, Len(p) - 1)

\* p / name of pathlib: an empty or "." component is dropped
Join(p, name) == IF name = <<>> \/ name = <<".">> THEN p ELSE Append(p, name)

FilePaths(F) == {f.path : f \in F}

\* os.mkdir
os_mkdir(p, D, F, R) ==
    IF p \in D \/ p \in FilePaths(F) THEN [err |-> "FileExistsError", dirs |-> D]
    ELSE IF Parent(p) \in FilePaths(F) THEN [err |-> "NotADirectoryError", dirs |-> D]
    ELSE IF Parent(p) \notin D THEN [err |-> "FileNotFoundError", dirs |-> D]
    ELSE IF Parent(p) \in R THEN [err |-> "PermissionError", dirs |-> D]
    ELSE [err |-> "", dirs |-> D \cup {p}]

\* Path.mkdir(parents, exist_ok)
RECURSIVE Path_mkdir(_, _, _, _, _, _)
Path_mkdir(p, parents, exist_ok, D, F, R) ==
    LET r == os_mkdir(p, D, F, R)
    IN  IF r.err = "" THEN r
        ELSE IF r.err = "FileNotFoundError" THEN
            IF ~parents \/ Parent(p) = p THEN r
            ELSE LET up == Path_mkdir(Parent(p), TRUE, TRUE, D, F, R)
                 IN  IF up.err # "" THEN up
                     ELSE Path_mkdir(p, FALSE, exist_ok, up.dirs, F, R)
        ELSE IF ~exist_ok \/ p \notin D THEN r
        ELSE [err |-> "", dirs |-> D]

(***************************************************************************)
(* make_unique_dir                                                         *)
(***************************************************************************)
\* _filename_serial_re.match(name): ^(.+?) \((\d+)\)$
filename_serial_re_match(name) ==
    LET n == Len(name)
        Cands == {p \in 2..(n - 3) :
                    /\ name[p] = " " /\ name[p + 1] = "(" /\ name[n] = ")"
                    /\ \A q \in (p + 2)..(n - 1) : IsDigit(name[q])}
    IN  IF Cands = {} THEN [ok |-> FALSE, group1 |-> <<>>, group2 |-> <<>>]
        ELSE LET p == CHOOSE c \in Cands : \A e \in Cands : c <= e
             IN  [ok |-> TRUE, group1 |-> SubSeq(name, 1, p - 1),
                  group2 |-> SubSeq(name, p + 2, n - 1)]

\* alt_name that never looks for an existing suffix
alt_name_append(name) == name \o <<" ", "(", "1", ")">>

\* the name tried after `name` was found taken
alt_name(name) ==
    LET matches == filename_serial_re_match(name)
    IN  IF matches.ok
        THEN matches.group1 \o <<" ", "(">> \o str(int(matches.group2) + 1) \o <<")">>
        ELSE name \o <<" ", "(", "1", ")">>

\* make_unique_dir whose mkdir accepts a directory that is already there
make_unique_dir_exist_ok(path, depth, D, F, R) ==
    LET r == Path_mkdir(path, TRUE, TRUE, D, F, R)
    IN  IF r.err = ""
        THEN [kind |-> "return", err |-> "", path |-> path, dirs |-> r.dirs]
        ELSE [kind |-> "raise", err |-> r.err, path |-> path, dirs |-> r.dirs]

\* One activation of make_unique_dir, the depth-th nested one: it returns the
\* new directory, raises, or calls itself with the next name.
make_unique_dir(path, depth, D, F, R) ==
    IF depth > RecursionLimit
    THEN [kind |-> "raise", err |-> "RecursionError", path |-> path, dirs |-> D]
    ELSE LET r == Path_mkdir(path, TRUE, FALSE, D, F, R)
         IN  IF r.err = ""
             THEN [kind |-> "return", err |-> "", path |-> path, dirs |-> r.dirs]
             ELSE IF path \notin D
             THEN [kind |-> "raise", err |-> r.err, path |-> path, dirs |-> r.dirs]
             ELSE [kind |-> "recurse", err |-> "",
                   path |-> Append(Parent(path), alt_name(Name(path))), dirs |-> D]

(***************************************************************************)
(* SeriesDirectory                                                         *)
(***************************************************************************)
Unnamed == <<"U", "n", "n", "a", "m", "e", "d">>

\* suggested_path testing the number for truth, so that 0 counts as absent
suggested_path_truthy(study_dir, number, desc) ==
    IF desc # <<>> /\ number \in {NoNumber, 0} THEN Join(study_dir, pathify(desc))
    ELSE IF desc # <<>>
    THEN Join(study_dir, <<"[">> \o str(number) \o <<"]", " ">> \o pathify(desc))
    ELSE IF number \in {NoNumber, 0} THEN Join(study_dir, <<"U", "n", "n", "a", "m", "e", "d">>)
    ELSE Join(study_dir, str(number))

\* SeriesDirectory.__init__: self._suggested
suggested_path(study_dir, number, desc) ==
    IF desc # <<>> /\ number = NoNumber THEN Join(study_dir, pathify(desc))
    ELSE IF desc # <<>>
    THEN Join(study_dir, <<"[">> \o str(number) \o <<"]", " ">> \o pathify(desc))
    ELSE IF number = NoNumber THEN Join(study_dir, Unnamed)
    ELSE Join(study_dir, str(number))

\* index_width with one character of headroom less
index_width_narrow(size) ==
    IF size <= 0 THEN [err |-> "ValueError", width |-> 0]
    ELSE [err |-> "", width |-> ilog10(size) + 1]

\* SeriesDirectory.__init__: self._width; math.log10 raises on size <= 0
index_width(size) ==
    IF size <= 0 THEN [err |-> "ValueError", width |-> 0]
    ELSE [err |-> "", width |-> ilog10(size) + 2]

\* FileName padding to one character more
FileName_wide(width, index, ext) ==
    zfill(str(index + 1) \o <<".">> \o ext, width + Len(ext) + 1)

\* SeriesDirectory.get: the file name for an index
FileName(width, index, ext) ==
    LET base == str(index + 1) \o <<".">> \o ext
    IN  zfill(base, width + Len(ext))

\* The object after __init__.  size and pos are the caller's loop over the
\* series' images; number, desc, before, made and called record the object's
\* history: what it was built from, what existed when it began to resolve,
\* the directories it created, whether a get on it has returned or raised.
NewObject(study_dir, number, desc, size, unique) ==
    [number |-> number,
     desc |-> desc,
     suggested |-> suggested_path(study_dir, number, desc),
     unique |-> unique,
     path |-> None,
     width |-> index_width(size).width,
     size |-> size,
     pos |-> 0,
     before |-> {},
     made |-> {},
     called |-> FALSE]

Cur == Len(series)

\* op: the operation, its count or index argument, its extension argument
Op(name, n, ext) == [name |-> name, n |-> n, ext |-> ext]

NoCall ==
    [s |-> 0, index |-> 0, ext |-> <<>>, caller |-> "", path |-> None, depth |-> 0]

Idle == pending = NoCall

\* dir_ = SeriesDirectory(save_to, no, name, len(images))
New(number, desc, size, unique) ==
    /\ Idle
    /\ op' = Op("new", size, <<>>)
    /\ ret' = None
    /\ IF index_width(size).err # ""
       THEN /\ lastErr' = index_width(size).err
            /\ series' = series
       ELSE /\ lastErr' = ""
            /\ series' = Append(series, NewObject(StudyDir, number, desc, size, unique))
    /\ UNCHANGED <<dirs, files, ro, pending>>

\* get returned: the caller of the loop writes the instance (or fails to) and
\* moves on; a caller outside the loop only keeps the path.
GetReturns(s, sd, index, ext, D, caller) ==
    LET dst == Append(sd.path, FileName(sd.width, index, ext))
    IN  /\ dirs' = D
        /\ ret' = dst
        /\ lastErr' = ""
        /\ pending' = NoCall
        /\ IF caller = "loop"
           THEN \E ok \in BOOLEAN :
                  /\ files' = IF ok /\ sd.path \in D
                              THEN {f \in files : f.path # dst}
                                     \cup {[path |-> dst, by |-> s, idx |-> index]}
                              ELSE files
                  /\ series' = [series EXCEPT ![s] =
                                  [sd EXCEPT !.pos = index + 1, !.called = TRUE]]
           ELSE /\ files' = files
                /\ series' = [series EXCEPT ![s] = [sd EXCEPT !.called = TRUE]]

\* get raised: the loop reports the error and goes on to the next image.
GetRaises(s, sd, err, D, index, caller) ==
    /\ dirs' = D
    /\ ret' = None
    /\ lastErr' = err
    /\ pending' = NoCall
    /\ files' = files
    /\ series' = [series EXCEPT ![s] =
                    IF caller = "loop"
                    THEN [sd EXCEPT !.pos = index + 1, !.called = TRUE]
                    ELSE [sd EXCEPT !.called = TRUE]]

\* One activation of make_unique_dir on behalf of get(index, ext) of object s.
Activation(s, sd, index, ext, caller, path, depth) ==
    LET a == make_unique_dir(path, depth, dirs, files, ro)
        got == [sd EXCEPT !.path = a.path, !.made = @ \cup (a.dirs \ dirs)]
    IN  CASE a.kind = "return" -> GetReturns(s, got, index, ext, a.dirs, caller)
          [] a.kind = "raise" ->
                GetRaises(s, [sd EXCEPT !.made = @ \cup (a.dirs \ dirs)],
                          a.err, a.dirs, index, caller)
          [] a.kind = "recurse" ->
                /\ pending' = [s |-> s, index |-> index, ext |-> ext,
                               caller |-> caller, path |-> a.path, depth |-> depth + 1]
                /\ series' = [series EXCEPT ![s] = sd]
                /\ UNCHANGED <<dirs, files, lastErr, ret>>

\* make_dir_shared refusing a directory that is already there
make_dir_shared_strict(sd, D, F, R) ==
    LET r == Path_mkdir(sd.suggested, TRUE, FALSE, D, F, R)
    IN  [err |-> r.err, dirs |-> r.dirs,
         sd |-> [sd EXCEPT !.path = sd.suggested, !.made = @ \cup (r.dirs \ D)]]

\* SeriesDirectory.make_dir with unique = False: _path is assigned, then mkdir
make_dir_shared(sd, D, F, R) ==
    LET r == Path_mkdir(sd.suggested, TRUE, TRUE, D, F, R)
    IN  [err |-> r.err, dirs |-> r.dirs,
         sd |-> [sd EXCEPT !.path = sd.suggested, !.made = @ \cup (r.dirs \ D)]]

\* get resolving the directory on every call
get_eager(s, index, ext, caller) ==
    LET sd == series[s]
    IN  IF sd.unique
        THEN Activation(s, sd, index, ext, caller, sd.suggested, 1)
        ELSE LET m == make_dir_shared(sd, dirs, files, ro)
             IN  IF m.err = "" THEN GetReturns(s, m.sd, index, ext, m.dirs, caller)
                 ELSE GetRaises(s, m.sd, m.err, m.dirs, index, caller)

\* SeriesDirectory.get(index, extension)
get(s, index, ext, caller) ==
    LET sd == series[s]
        first == [sd EXCEPT !.before = dirs \cup FilePaths(files)]
    IN  IF sd.path # None THEN GetReturns(s, sd, index, ext, dirs, caller)
        ELSE IF sd.unique
        THEN Activation(s, first, index, ext, caller, sd.suggested, 1)
        ELSE LET m == make_dir_shared(first, dirs, files, ro)
             IN  IF m.err = "" THEN GetReturns(s, m.sd, index, ext, m.dirs, caller)
                 ELSE GetRaises(s, m.sd, m.err, m.dirs, index, caller)

(***************************************************************************)
(* The crawl: for each series, for each image                              *)
(***************************************************************************)
Ext_dcm == <<"d", "c", "m">>

CrawlDescs == {<<"X">>, <<"X", " ", "(", "1", ")">>}

LoopDone == IF Cur = 0 THEN TRUE ELSE series[Cur].pos = series[Cur].size

\* the crawler reaches the next series of the study
NewSeries ==
    /\ LoopDone
    /\ Cur < MaxSeries
    /\ \E desc \in CrawlDescs, size \in 0..MaxSize, unique \in BOOLEAN :
         New(NoNumber, desc, size, unique)
    /\ UNCHANGED <<arg, out>>

\* an image without pixels (xa_data) or without tags (hinacom) is skipped
Skip ==
    /\ Idle
    /\ ~LoopDone
    /\ op' = Op("skip", series[Cur].pos, <<>>)
    /\ series' = [series EXCEPT ![Cur].pos = @ + 1]
    /\ UNCHANGED <<dirs, files, ro, pending, lastErr, ret, arg, out>>

\* dst = dir_.get(i, 'dcm'); _write_dicom(tags, img_bytes, dst)
Instance ==
    /\ Idle
    /\ ~LoopDone
    /\ op' = Op("get", series[Cur].pos, Ext_dcm)
    /\ ro' = ro
    /\ get(Cur, series[Cur].pos, Ext_dcm, "loop")
    /\ UNCHANGED <<arg, out>>

\* the nested call make_unique_dir(path.parent / alt)
Retry ==
    /\ ~Idle
    /\ op' = Op("retry", pending.index, pending.ext)
    /\ ro' = ro
    /\ Activation(pending.s, series[pending.s], pending.index, pending.ext,
                  pending.caller, pending.path, pending.depth)
    /\ UNCHANGED <<arg, out>>

(***************************************************************************)
(* The study directory before the crawl: absent, or present with the       *)
(* directories X, X (1), .., X (k-1), possibly a regular file under the    *)
(* next name, possibly refusing new entries.                               *)
(***************************************************************************)
PreName(k) == IF k = 0 THEN <<"X">> ELSE <<"X", " ", "(">> \o str(k) \o <<")">>

PreDirs(k) == {Append(StudyDir, PreName(i)) : i \in 0..(k - 1)}

InitEnv(Ks, Hazards) ==
    /\ \E k \in Ks, obstacle \in Hazards, denied \in Hazards, fresh \in BOOLEAN :
         /\ fresh => k = 0 /\ ~obstacle /\ ~denied
         /\ dirs = IF fresh THEN {Cwd}
                   ELSE {Cwd, DownloadDir, StudyDir} \cup PreDirs(k)
         /\ files = IF obstacle
                    THEN {[path |-> Append(StudyDir, PreName(k)), by |-> 0, idx |-> 0]}
                    ELSE {}
         /\ ro = IF denied THEN {StudyDir} ELSE {}
    /\ series = <<>>
    /\ pending = NoCall
    /\ lastErr = ""
    /\ ret = None
    /\ op = Op("init", 0, <<>>)
    /\ arg = NoArg
    /\ out = NoOut

Init == InitEnv(0..MaxPre, BOOLEAN)

Next == NewSeries \/ Skip \/ Instance \/ Retry

Spec == Init /\ [][Next]_vars

(***************************************************************************)
(* The crawl of series named X into a study directory that already holds   *)
(* as many directories X, X (1), .. as the recursion limit.                *)
(***************************************************************************)
NewSeriesDeep ==
    /\ LoopDone
    /\ Cur < DeepSeries
    /\ \E size \in 1..MaxSize : New(NoNumber, <<"X">>, size, TRUE)
    /\ UNCHANGED <<arg, out>>

InitDeep == InitEnv({RecursionLimit}, {FALSE})

NextDeep == NewSeriesDeep \/ Skip \/ Instance \/ Retry

SpecDeep == InitDeep /\ [][NextDeep]_vars

(***************************************************************************)
(* The constructor and get on their own: one object, any number,           *)
(* description and count, any index and extension.                         *)
(***************************************************************************)
Numbers == {NoNumber, 0, 12}

Descs ==
    {<<>>, <<"X">>, <<" ">>, <<".">>, <<"a", "/", "b">>, <<" ", "T", "2", ":", " ">>}

Exts == {Ext_dcm, <<"j", "p", "e", "g">>}

NewAlone ==
    /\ series = <<>>
    /\ \E number \in Numbers, desc \in Descs, size \in 0..MaxCount, unique \in BOOLEAN :
         New(number, desc, size, unique)
    /\ UNCHANGED <<arg, out>>

GetAlone ==
    /\ Idle
    /\ series # <<>>
    /\ ro' = ro
    /\ \E index \in 0..MaxIndex, ext \in Exts :
         /\ op' = Op("get", index, ext)
         /\ get(Cur, index, ext, "alone")
    /\ UNCHANGED <<arg, out>>

InitNames == InitEnv(0..1, {FALSE})

NextNames == NewAlone \/ GetAlone \/ Retry

SpecNames == InitNames /\ [][NextNames]_vars

(***************************************************************************)
(* Vocabulary of the properties                                            *)
(***************************************************************************)
Objs == 1..Len(series)

Resolved(s) == series[s].path # None

WroteFile(s) == \E f \in files : f.by = s

\* the sibling of p named "<name of p> (k)"; p itself for k = 0
Sib(p, k) ==
    IF k = 0 THEN p
    ELSE Append(Parent(p), Name(p) \o <<" ", "(">> \o str(k) \o <<")">>)

\* name = B \o " (" \o digits \o ")" with B = the first j characters, non-empty
SerialSplits(name) ==
    {j \in 1..(Len(name) - 4) :
        /\ name[j + 1] = " " /\ name[j + 2] = "(" /\ name[Len(name)] = ")"
        /\ \A q \in (j + 3)..(Len(name) - 1) : IsDigit(name[q])}

EndsInSerial(name) == SerialSplits(name) # {}

\* "B (n + 1)" for a name "B (n)"
NextSerial(name) ==
    LET j == CHOOSE c \in SerialSplits(name) : TRUE
        n == int(SubSeq(name, j + 3, Len(name) - 1))
    IN  SubSeq(name, 1, j) \o <<" ", "(">> \o str(n + 1) \o <<")">>

\* s1 then s2 are unique-mode series of the same suggested path, both resolved,
\* the first when that path was free
SameNamePair(s1, s2) ==
    /\ s1 < s2
    /\ series[s1].unique /\ series[s2].unique
    /\ series[s1].suggested = series[s2].suggested
    /\ Resolved(s1) /\ Resolved(s2)
    /\ series[s1].suggested \notin series[s1].before

\* no file written through a unique-mode series is replaced by another series
\* in unique mode
KeepsFiles ==
    \A f \in files : \A g \in files' :
        (f.by # 0 /\ g.path = f.path /\ series[f.by].unique /\ series'[g.by].unique)
            => g.by = f.by

(***************************************************************************)
(* C1                                                                      *)
(***************************************************************************)
\* C1 as stated: of two unique-mode series with the same suggested name X
\* materialized in a study directory where X and "X (1)" were free, the first
\* resolves to X and the second to "X (1)".
C1_Original ==
    \A s1 \in Objs, s2 \in Objs :
        (/\ SameNamePair(s1, s2)
         /\ Sib(series[s2].suggested, 1) \notin series[s2].before)
        => /\ series[s1].path = series[s1].suggested
           /\ series[s2].path = Sib(series[s2].suggested, 1)

\* the name the second of two same-named series is expected under
SecondName(name) ==
    IF EndsInSerial(name) THEN NextSerial(name) ELSE name \o <<" ", "(", "1", ")">>

C1_Names ==
    \A s1 \in Objs, s2 \in Objs :
        LET P == series[s2].suggested
            second == Append(Parent(P), SecondName(Name(P)))
        IN  (SameNamePair(s1, s2) /\ second \notin series[s2].before)
            => /\ series[s1].path = P
               /\ series[s2].path = second
               /\ series[s1].path # series[s2].path

\* C1, amended: of two unique-mode series with the same suggested name X, the
\* first resolves to X (when X is free) and the second to "X (1)" when X does
\* not end in " (n)", and to "B (n+1)" when X is "B (n)" (when that name is
\* free); and no file written through one unique-mode series is overwritten or
\* replaced through another.
C1_Amended == [](C1_Names) /\ [][KeepsFiles]_vars

\* C1 witness: two same-named unique-mode series, resolved to X and "X (1)",
\* each with a file written.
C1_Witness ==
    \E s1 \in Objs, s2 \in Objs :
        /\ SameNamePair(s1, s2)
        /\ ~EndsInSerial(Name(series[s1].suggested))
        /\ series[s1].path = series[s1].suggested
        /\ series[s2].path = Sib(series[s2].suggested, 1)
        /\ WroteFile(s1) /\ WroteFile(s2)

(***************************************************************************)
(* C2                                                                      *)
(***************************************************************************)
\* the number of X, X (1), .. present in B without a gap
RunLength(P, B) ==
    CHOOSE k \in 0..(RecursionLimit + MaxPre + MaxSeries) :
        /\ Sib(P, k) \notin B
        /\ \A i \in 0..(k - 1) : Sib(P, i) \in B

\* C2: when X, "X (1)", .., "X (k-1)" exist (and "X (k)" does not), a get on a
\* unique-mode series of suggested name X (X not itself ending in " (n)") ends
\* with the series resolved to the newly created "X (k)" and every directory
\* that existed before still there, for every k.
C2_AnyDepth ==
    \A s \in Objs :
        LET sd == series[s]
            k == RunLength(sd.suggested, sd.before)
        IN  (/\ Idle /\ sd.unique /\ sd.called
             /\ ~EndsInSerial(Name(sd.suggested)))
            => /\ sd.path = Sib(sd.suggested, k)
               /\ sd.path \in dirs
               /\ sd.path \notin sd.before
               /\ (sd.before \ FilePaths(files)) \subseteq dirs

(***************************************************************************)
(* C3                                                                      *)
(***************************************************************************)
IsAncestor(a, p) == Len(a) < Len(p) /\ SubSeq(p, 1, Len(a)) = a

\* what one step may do to the directories
C3_Step ==
    /\ op'.name = "new" => dirs' = dirs
    /\ dirs' # dirs =>
          /\ Len(series') = Cur
          /\ series[Cur].path = None
          /\ ~series[Cur].called
    /\ (op'.name = "get" /\ Cur > 0 /\ series[Cur].path # None) =>
          /\ dirs' = dirs
          /\ series'[Cur].path = series[Cur].path
          /\ ret' # None
          /\ Parent(ret') = series[Cur].path
    /\ \A s \in 1..Len(series') :
          LET sd == series'[s]
          IN  /\ \A d \in sd.made : d = sd.path \/ IsAncestor(d, sd.path)
              /\ (sd.unique /\ sd.path # None) => sd.path \in sd.made

C4_NoEmptyDir ==
    \A s \in Objs :
        (Idle /\ series[s].pos = series[s].size /\ ~WroteFile(s))
            => series[s].path \notin series[s].made

(***************************************************************************)
(* C5                                                                      *)
(***************************************************************************)
\* characters of file names in code point order
Alphabet ==
    <<".", "0", "1", "2", "3", "4", "5", "6", "7", "8", "9",
      "c", "d", "e", "g", "j", "m", "p">>

Ord(c) == CHOOSE i \in 1..Len(Alphabet) : Alphabet[i] = c

\* a < b as Python compares str
LexLess(a, b) ==
    \E i \in 1..(Len(a) + 1) :
        /\ \A q \in 1..(i - 1) : q <= Len(b) /\ a[q] = b[q]
        /\ IF i > Len(a) THEN Len(b) > Len(a)
           ELSE i <= Len(b) /\ Ord(a[i]) < Ord(b[i])

\* C5: the name get returned for an index below the instance count differs
\* from the name of every other such index under the same extension, has the
\* same length, and sorts before it exactly when its index is the smaller.
C5_Order ==
    (/\ op.name \in {"get", "retry"} /\ ret # None
     /\ op.n < series[Cur].size)
    => \A j \in 0..(series[Cur].size - 1) :
          LET a == Name(ret)
              b == FileName(series[Cur].width, j, op.ext)
          IN  j # op.n =>
                /\ a # b
                /\ Len(a) = Len(b)
                /\ (op.n < j <=> LexLess(a, b))
                /\ (j < op.n <=> LexLess(b, a))

\* C5 witness: get(1) returned "02.dcm" for a series of 10 instances
C5_Witness ==
    /\ Cur > 0
    /\ op.name = "get" /\ op.n = 1 /\ op.ext = Ext_dcm
    /\ series[Cur].size = 10
    /\ ret # None
    /\ Name(ret) = <<"0", "2", ".", "d", "c", "m">>

(***************************************************************************)
(* C6                                                                      *)
(***************************************************************************)
FirstOfFive ==
    /\ Cur > 0
    /\ op.name \in {"get", "retry"} /\ op.n = 0 /\ op.ext = Ext_dcm
    /\ series[Cur].size = 5
    /\ ret # None

\* C6 as stated: for instance_count 5, get(0, "dcm") returns "01.dcm".
C6_Original == FirstOfFive => Name(ret) = <<"0", "1", ".", "d", "c", "m">>

\* C6, amended: for instance_count 5, get(0, "dcm") returns "1.dcm": the name
\* "1.dcm" already has the index_width 2 plus the extension length 3
\* characters, so no zero is put in front.
C6_Amended ==
    FirstOfFive =>
        /\ series[Cur].width = 2
        /\ Name(ret) = <<"1", ".", "d", "c", "m">>
        /\ Len(Name(ret)) = series[Cur].width + Len(Ext_dcm)

\* C6 witness: get(0, "dcm") returned for a series of 5 instances
C6_Witness == FirstOfFive /\ Parent(ret) = series[Cur].path

(***************************************************************************)
(* C7                                                                      *)
(***************************************************************************)
\* C7: the constructor succeeds for every instance_count >= 0 and sets
\* index_width to floor(log10(max(instance_count, 1))) + 2.
C7_AnyCount ==
    op.name = "new" =>
        /\ lastErr = ""
        /\ Cur > 0
        /\ series[Cur].width = ilog10(IF op.n > 1 THEN op.n ELSE 1) + 2

(***************************************************************************)
(* C8                                                                      *)
(***************************************************************************)
\* the directory name C8 gives for a number and a description
C8_Name(number, desc) ==
    CASE desc # <<>> /\ number # NoNumber ->
            <<"[">> \o str(number) \o <<"]", " ">> \o pathify(desc)
      [] desc # <<>> /\ number = NoNumber -> pathify(desc)
      [] desc = <<>> /\ number # NoNumber -> str(number)
      [] desc = <<>> /\ number = NoNumber -> Unnamed

C9_Step ==
    LET P == series[Cur].suggested
    IN  (/\ op'.name = "get" /\ Cur > 0
         /\ ~series[Cur].unique /\ series[Cur].path = None
         /\ \/ P \in dirs
            \/ P \notin FilePaths(files) /\ Parent(P) \notin ro)
        => /\ lastErr' = ""
           /\ series'[Cur].path = P
           /\ P \in dirs'
           /\ dirs \subseteq dirs'
           /\ P \in dirs => dirs' = dirs
           /\ Parent(ret') = P

C9_Same ==
    \A s1 \in Objs, s2 \in Objs :
        (/\ ~series[s1].unique /\ ~series[s2].unique
         /\ Resolved(s1) /\ Resolved(s2)
         /\ series[s1].suggested = series[s2].suggested)
        => /\ series[s1].path = series[s2].path
           /\ series[s1].path = series[s1].suggested

\* C9: in non-unique mode resolving creates the suggested directory if it is
\* absent and reuses it if it exists, without error and under the suggested
\* name itself; non-unique series of one suggested path share the directory.
C9_Shared == [](C9_Same) /\ [][C9_Step]_vars

\* C9 witness: two non-unique series of one suggested path, the first having
\* created the directory and the second having found it there and written
\* its file into it
C9_Witness ==
    \E s1 \in Objs, s2 \in Objs :
        /\ s1 < s2
        /\ ~series[s1].unique /\ ~series[s2].unique
        /\ series[s1].suggested = series[s2].suggested
        /\ series[s1].path = series[s2].path
        /\ series[s1].path \in series[s1].made
        /\ series[s2].path \in series[s2].before
        /\ series[s2].made = {}
        /\ WroteFile(s2)

(***************************************************************************)
(* C10                                                                     *)
(***************************************************************************)
\* C10: when get raised an error of directory creation, no directory was
\* created and the object is left unresolved.
C10_Unresolved ==
    (/\ Cur > 0
     /\ op.name \in {"get", "retry"}
     /\ lastErr \in {"FileExistsError", "PermissionError", "NotADirectoryError",
                     "FileNotFoundError"})
    => /\ series[Cur].path = None
       /\ series[Cur].made = {}

(***************************************************************************)
(* pathify on its own: any text over the illegal characters, a legal one   *)
(* and the blank.                                                          *)
(***************************************************************************)
MaxText == 3        \* longest text given to pathify

TextChars == illegal_path_chars \cup {"a", " "}

Texts == UNION {[1..n -> TextChars] : n \in 0..MaxText}

\* a function applied on its own touches no file and no SeriesDirectory
NoCrawl ==
    /\ dirs = {Cwd}
    /\ files = {}
    /\ ro = {}
    /\ series = <<>>
    /\ pending = NoCall
    /\ lastErr = ""
    /\ ret = None
    /\ op = Op("init", 0, <<>>)

Returned(value) == [done |-> TRUE, err |-> "", value |-> value]

Raised(err) == [done |-> TRUE, err |-> err, value |-> <<>>]

InitPathify ==
    /\ NoCrawl
    /\ \E text \in Texts : arg = [fn |-> "pathify", text |-> text]
    /\ out = NoOut

Pathify ==
    /\ arg.fn = "pathify"
    /\ ~out.done
    /\ out' = Returned(pathify(arg.text))
    /\ UNCHANGED <<dirs, files, ro, series, pending, lastErr, ret, op, arg>>

NextPathify == Pathify

SpecPathify == InitPathify /\ [][NextPathify]_vars

(***************************************************************************)
(* C11: for every input string the sanitized name contains none of         *)
(* < > : " / \ ? * |, and each illegal character is replaced by its own    *)
(* full-width lookalike, a different one for each illegal character and    *)
(* never an ordinary ASCII character.                                      *)
(***************************************************************************)
\* the Halfwidth and Fullwidth Forms of the illegal characters (code point
\* + FEE0)
FullWidthForm(c) ==
    CASE c = "<" -> "U+FF1C"
      [] c = ">" -> "U+FF1E"
      [] c = ":" -> "U+FF1A"
      [] c = "\"" -> "U+FF02"
      [] c = "/" -> "U+FF0F"
      [] c = "\\" -> "U+FF3C"
      [] c = "?" -> "U+FF1F"
      [] c = "*" -> "U+FF0A"
      [] c = "|" -> "U+FF5C"

Pathified == arg.fn = "pathify" /\ out.done

\* C11: every illegal character of the stripped text is replaced by its
\* full-width form, the others are kept, no illegal character remains
C11_FullWidth ==
    Pathified =>
        LET t == strip(arg.text)
        IN  /\ Len(out.value) = Len(t)
            /\ \A i \in 1..Len(t) :
                 /\ out.value[i] \notin illegal_path_chars
                 /\ t[i] \in illegal_path_chars =>
                      /\ out.value[i] = FullWidthForm(t[i])
                      /\ \A j \in 1..Len(t) :
                           t[j] \in illegal_path_chars /\ t[j] # t[i]
                               => out.value[j] # out.value[i]
                 /\ t[i] \notin illegal_path_chars => out.value[i] = t[i]

\* what does hold: no illegal character remains, and distinct illegal
\* characters get distinct replacements
C11_Legal ==
    Pathified =>
        LET t == strip(arg.text)
        IN  /\ Len(out.value) = Len(t)
            /\ \A i \in 1..Len(t) :
                 /\ out.value[i] \notin illegal_path_chars
                 /\ \A j \in 1..Len(t) :
                      t[j] # t[i] => out.value[j] # out.value[i]

(***************************************************************************)
(* parse_dcm_value.  The VR sets are those of pydicom.valuerep, where IS   *)
(* and DS belong to the string set as well as to the integer and float     *)
(* sets.  A value is a record: a str (s), an int (n), a float (the decimal *)
(* n * 10^e, normalized) or a Tag (s, its hexadecimal digits).             *)
(***************************************************************************)
STR_VR ==
    {"AE", "AS", "CS", "DA", "DS", "DT", "IS", "TM", "UI", "UR",
     "LO", "LT", "PN", "SH", "ST", "UC", "UT"}

INT_VR == {"IS", "SL", "SS", "SV", "UL", "US", "UV"}

FLOAT_VR == {"DS", "FD", "FL"}

VR_AT == "AT"

\* the other VRs of the public dictionary
OTHER_VR ==
    {"OB", "OD", "OF", "OL", "OV", "OW", "SQ", "UN",
     "OB or OW", "US or OW", "US or SS or OW"}

StrValue(s) == [t |-> "str", s |-> s, n |-> 0, e |-> 0]
IntValue(n) == [t |-> "int", s |-> <<>>, n |-> n, e |-> 0]
TagValue(s) == [t |-> "tag", s |-> s, n |-> 0, e |-> 0]

\* the float n * 10^e with e <= 0, trailing zeros of the fraction dropped
RECURSIVE FloatValue(_, _)
FloatValue(n, e) ==
    IF n = 0 THEN [t |-> "float", s |-> <<>>, n |-> 0, e |-> 0]
    ELSE IF e < 0 /\ n % 10 = 0 THEN FloatValue(n \div 10, e + 1)
    ELSE [t |-> "float", s |-> <<>>, n |-> n, e |-> e]

Cast(value) == [ok |-> TRUE, value |-> value]
CastError == [ok |-> FALSE, value |-> StrValue(<<>>)]

IsSign(c) == c \in {"-", "+"}

AllDigits(s) == \A i \in 1..Len(s) : IsDigit(s[i])

\* str(x) of a str
cast_str(x) == Cast(StrValue(x))

\* int(x) of a str: blanks around, a sign, decimal digits
cast_int(x) ==
    LET t == strip(x)
        signed == Len(t) > 0 /\ IsSign(t[1])
        d == IF signed THEN Tail(t) ELSE t
    IN  IF Len(d) = 0 \/ ~AllDigits(d) THEN CastError
        ELSE Cast(IntValue(IF signed /\ t[1] = "-" THEN 0 - int(d) ELSE int(d)))

\* float(x) of a str: blanks around, a sign, digits with at most one point
\* and at least one digit
cast_float(x) ==
    LET t == strip(x)
        signed == Len(t) > 0 /\ IsSign(t[1])
        d == IF signed THEN Tail(t) ELSE t
        points == {i \in 1..Len(d) : d[i] = "."}
        dot == IF points = {} THEN Len(d) + 1 ELSE CHOOSE i \in points : TRUE
        whole == SubSeq(d, 1, dot - 1)
        frac == SubSeq(d, dot + 1, Len(d))
        m == int(whole \o frac)
    IN  IF Cardinality(points) > 1 \/ Len(whole \o frac) = 0
           \/ ~AllDigits(whole \o frac)
        THEN CastError
        ELSE Cast(FloatValue(IF signed /\ t[1] = "-" THEN 0 - m ELSE m,
                             0 - Len(frac)))

cast_fn(kind, x) ==
    IF kind = "str" THEN cast_str(x)
    ELSE IF kind = "int" THEN cast_int(x)
    ELSE cast_float(x)

\* value.split("\\")
RECURSIVE split(_)
split(value) ==
    LET cuts == {i \in 1..Len(value) : value[i] = "\\"}
    IN  IF cuts = {} THEN <<value>>
        ELSE LET c == CHOOSE i \in cuts : \A j \in cuts : i <= j
             IN  <<SubSeq(value, 1, c - 1)>>
                     \o split(SubSeq(value, c + 1, Len(value)))

HexDigits == <<"0", "1", "2", "3", "4", "5", "6", "7", "8", "9",
               "a", "b", "c", "d", "e", "f">>

IsHex(c) == \E i \in 1..Len(HexDigits) : HexDigits[i] = c

\* the hexadecimal digits without the leading zeros
RECURSIVE significant(_)
significant(s) ==
    IF Len(s) > 0 /\ s[1] = "0" THEN significant(Tail(s)) ELSE s

MaxTagDigits == 8

\* Tag(value) of a str: int(value, 16), not negative, at most 0xFFFFFFFF
Tag(value) ==
    LET t == strip(value)
        signed == Len(t) > 0 /\ IsSign(t[1])
        d == IF signed THEN Tail(t) ELSE t
    IN  IF Len(d) = 0 \/ ~(\A i \in 1..Len(d) : IsHex(d[i]))
        THEN Raised("ValueError")
        ELSE IF signed /\ t[1] = "-" /\ significant(d) # <<>>
        THEN Raised("ValueError")
        ELSE IF Len(significant(d)) > MaxTagDigits THEN Raised("OverflowError")
        ELSE Returned([multi |-> FALSE, vals |-> <<TagValue(significant(d))>>])

\* the casts of every part, or the first failure
Casts(kind, parts) ==
    IF \E i \in 1..Len(parts) : ~cast_fn(kind, parts[i]).ok
    THEN Raised("ValueError")
    ELSE Returned([multi |-> Len(parts) # 1,
                   vals |-> [i \in 1..Len(parts) |-> cast_fn(kind, parts[i]).value]])

parse_dcm_value_any(value, vr) ==
    IF vr = VR_AT THEN Tag(value)
    ELSE IF vr \in INT_VR \/ vr = "US or SS" THEN Casts("int", split(value))
    ELSE IF vr \in FLOAT_VR THEN Casts("float", split(value))
    ELSE Casts("str", split(value))

parse_dcm_value_list(value, vr) ==
    IF vr = VR_AT THEN Tag(value)
    ELSE IF vr \in STR_VR \/ vr \in INT_VR \/ vr = "US or SS" \/ vr \in FLOAT_VR
    THEN LET kind == IF vr \in STR_VR THEN "str"
                     ELSE IF vr \in FLOAT_VR THEN "float" ELSE "int"
             r == Casts(kind, split(value))
         IN  IF r.err = "" THEN Returned([multi |-> TRUE, vals |-> r.value.vals])
             ELSE r
    ELSE Raised("NotImplementedError")

parse_dcm_value(value, vr) ==
    IF vr = VR_AT THEN Tag(value)
    ELSE IF vr \in STR_VR THEN Casts("str", split(value))
    ELSE IF vr \in INT_VR \/ vr = "US or SS" THEN Casts("int", split(value))
    ELSE IF vr \in FLOAT_VR THEN Casts("float", split(value))
    ELSE Raised("NotImplementedError")

(***************************************************************************)
(* parse_dcm_value on its own: any VR, any raw value over digits, a sign,  *)
(* a point, a letter, a blank and the backslash.                           *)
(***************************************************************************)
MaxRaw == 3         \* longest raw value given to parse_dcm_value

RawChars == {"0", "1", "2", "-", ".", "a", " ", "\\"}

Raws == UNION {[1..n -> RawChars] : n \in 0..MaxRaw}

VRs == STR_VR \cup INT_VR \cup FLOAT_VR \cup OTHER_VR \cup {VR_AT, "US or SS", "ZZ"}

InitParse ==
    /\ NoCrawl
    /\ \E value \in Raws, vr \in VRs :
         arg = [fn |-> "parse_dcm_value", value |-> value, vr |-> vr]
    /\ out = NoOut

Parse ==
    /\ arg.fn = "parse_dcm_value"
    /\ ~out.done
    /\ out' = parse_dcm_value(arg.value, arg.vr)
    /\ UNCHANGED <<dirs, files, ro, series, pending, lastErr, ret, op, arg>>

NextParse == Parse

SpecParse == InitParse /\ [][NextParse]_vars

(***************************************************************************)
(* Vocabulary of the properties of parse_dcm_value                         *)
(***************************************************************************)
Parsed == arg.fn = "parse_dcm_value" /\ out.done

\* the positions of the backslashes of a raw value
Cuts(raw) == {i \in 1..Len(raw) : raw[i] = "\\"}

NSegments(raw) == Cardinality(Cuts(raw)) + 1

\* the k-th segment: what lies between the (k-1)-th and the k-th backslash
Segment(raw, k) ==
    LET nth(n) == CHOOSE i \in Cuts(raw) :
                      Cardinality({j \in Cuts(raw) : j <= i}) = n
        lo == IF k = 1 THEN 0 ELSE nth(k - 1)
        hi == IF k = NSegments(raw) THEN Len(raw) + 1 ELSE nth(k)
    IN  SubSeq(raw, lo + 1, hi - 1)

StringFamily == STR_VR
IntegerFamily == INT_VR \cup {"US or SS"}
FloatFamily == FLOAT_VR

\* the types of the families a VR belongs to
KindsOf(vr) ==
    {k \in {"str", "int", "float"} :
        \/ k = "str" /\ vr \in StringFamily
        \/ k = "int" /\ vr \in IntegerFamily
        \/ k = "float" /\ vr \in FloatFamily}

\* the type the value is converted to: the first family, in the order
\* string, integer, float, that holds the VR
KindOf(vr) ==
    IF vr \in StringFamily THEN "str"
    ELSE IF vr \in IntegerFamily THEN "int" ELSE "float"

\* a scalar for one segment, a vector otherwise, the k-th element being the
\* k-th segment converted to the kind
SplitAs(kind) ==
    /\ out.err = ""
    /\ out.value.multi = (NSegments(arg.value) # 1)
    /\ Len(out.value.vals) = NSegments(arg.value)
    /\ \A k \in 1..NSegments(arg.value) :
         /\ out.value.vals[k].t = kind
         /\ cast_fn(kind, Segment(arg.value, k)) = Cast(out.value.vals[k])

\* C12 as stated: for every VR of the string, integer and float families and
\* every raw string, the result is the scalar or the vector of the segments
\* converted to a type of the VR's family
C12_Original ==
    Parsed /\ KindsOf(arg.vr) # {} =>
        \E kind \in KindsOf(arg.vr) : SplitAs(kind)

\* C12: for every VR of the string, integer and float families the raw
\* string is split on the backslash; the segments are converted to the type
\* of the first family (string, integer, float) holding the VR, giving a
\* scalar for one segment and a vector otherwise; when a segment is not a
\* literal of that type the call raises ValueError and returns nothing;
\* nothing else changes
C12_Amended ==
    Parsed /\ KindsOf(arg.vr) # {} =>
        /\ NoCrawl
        /\ IF \A k \in 1..NSegments(arg.value) :
                  cast_fn(KindOf(arg.vr), Segment(arg.value, k)).ok
           THEN SplitAs(KindOf(arg.vr))
           ELSE out = Raised("ValueError")

\* C12 witness: an integer VR and a raw value of two different segments,
\* returned as a vector of two integers
C12_Witness ==
    /\ Parsed
    /\ arg.vr = "US"
    /\ out.err = ""
    /\ out.value.multi
    /\ Len(out.value.vals) = 2
    /\ out.value.vals[1].t = "int"
    /\ out.value.vals[1].n < out.value.vals[2].n

\* C13: a VR outside the tag-reference, string, integer and float families
\* ends in the unsupported-VR error and returns no value, for every raw
\* string
C13_Unsupported ==
    Parsed /\ arg.vr # VR_AT /\ KindsOf(arg.vr) = {} =>
        out = Raised("NotImplementedError")

\* C13 witness: a bytes VR with a multi-valued raw string
C13_Witness ==
    /\ Parsed
    /\ arg.vr = "OB"
    /\ Cuts(arg.value) # {}
    /\ out.err = "NotImplementedError"

(***************************************************************************)
(* _write_dicom of the crawlers.  A tag is the pair <<group, element>>, a  *)
(* Dataset is a function from tags to values, bytes are a sequence of      *)
(* numbers 0..255.  A keyword stands for its tag.                          *)
(***************************************************************************)
FileMetaInformationVersion == <<2, 1>>
MediaStorageSOPClassUID == <<2, 2>>
MediaStorageSOPInstanceUID == <<2, 3>>
TransferSyntaxUID == <<2, 16>>
ImplementationClassUID == <<2, 18>>
ImplementationVersionName == <<2, 19>>
SpecificCharacterSet == <<8, 5>>
SOPClassUID == <<8, 22>>
SOPInstanceUID == <<8, 24>>
Modality == <<8, 96>>
PatientName == <<16, 16>>
StudyInstanceUID == <<32, 13>>
SeriesInstanceUID == <<32, 14>>
SamplesPerPixel == <<40, 2>>
PhotometricInterpretation == <<40, 4>>
PlanarConfiguration == <<40, 6>>
Rows == <<40, 16>>
Columns == <<40, 17>>
BitsAllocated == <<40, 256>>
BitsStored == <<40, 257>>
HighBit == <<40, 258>>
PixelRepresentation == <<40, 259>>
WindowCenter == <<40, 4176>>
WindowWidth == <<40, 4177>>
RescaleIntercept == <<40, 4178>>
RescaleSlope == <<40, 4179>>
RescaleType == <<40, 4180>>
WindowCenterWidthExplanation == <<40, 4181>>
PixelData == <<32736, 16>>

\* DicomDictionary.get(tag): the VR of the public tags above, None for
\* every other tag
DicomDictionary(tag) ==
    IF tag \in {MediaStorageSOPClassUID, MediaStorageSOPInstanceUID,
                TransferSyntaxUID, ImplementationClassUID, SOPClassUID,
                SOPInstanceUID, StudyInstanceUID, SeriesInstanceUID}
    THEN "UI"
    ELSE IF tag \in {SpecificCharacterSet, Modality, PhotometricInterpretation}
    THEN "CS"
    ELSE IF tag \in {SamplesPerPixel, PlanarConfiguration, Rows, Columns,
                     BitsAllocated, BitsStored, HighBit, PixelRepresentation}
    THEN "US"
    ELSE IF tag \in {WindowCenter, WindowWidth, RescaleIntercept, RescaleSlope}
    THEN "DS"
    ELSE IF tag \in {RescaleType, WindowCenterWidthExplanation} THEN "LO"
    ELSE IF tag = ImplementationVersionName THEN "SH"
    ELSE IF tag = PatientName THEN "PN"
    ELSE IF tag = FileMetaInformationVersion THEN "OB"
    ELSE IF tag = PixelData THEN "OB or OW"
    ELSE "None"

\* a single value, as an attribute assignment stores it
Scalar(v) == [multi |-> FALSE, vals |-> <<v>>]

\* UID('...') of a constant and generate_uid(): the n-th generated one
UID(name) == [t |-> "uid", s |-> <<name>>, n |-> 0, e |-> 0]
generate_uid(n) == [t |-> "uid", s |-> <<"generated">>, n |-> n, e |-> 0]

\* the bytes of PixelData: as given, or encapsulate([image])
Native(image) == [t |-> "bytes", s |-> image, n |-> 0, e |-> 0]
encapsulate(image) == [t |-> "fragments", s |-> image, n |-> 1, e |-> 0]

EmptyDataset == [tag \in {} |-> Scalar(IntValue(0))]

hasattr(ds, tag) == tag \in DOMAIN ds

setattr(ds, tag, value) ==
    [x \in DOMAIN ds \cup {tag} |-> IF x = tag THEN value ELSE ds[x]]

delattr(ds, tag) == [x \in DOMAIN ds \ {tag} |-> ds[x]]

\* ds.add_new(tag, "LO", value): a str holding backslashes is split
add_new(ds, tag, value) == setattr(ds, tag, Casts("str", split(value)).value)

(***************************************************************************)
(* The signatures of the pixel bytes                                       *)
(***************************************************************************)
Slice(data, lo, hi) ==
    SubSeq(data, lo + 1, IF hi < Len(data) THEN hi ELSE Len(data))

startswith(data, prefix) == Slice(data, 0, Len(prefix)) = prefix

\* prefix in data
Contains(data, part) ==
    \E i \in 0..(Len(data) - Len(part)) : Slice(data, i, i + Len(part)) = part

SOI == <<255, 216>>
SOC == <<255, 79>>
ftyp == <<102, 116, 121, 112>>
ftypjp2 == <<102, 116, 121, 112, 106, 112, 50>>
PK == <<80, 75>>
PK34 == <<80, 75, 3, 4>>

\* struct.unpack('>H', two bytes)
unpack_H(b) == 256 * b[1] + b[2]

NoHeader == [kind |-> "None", height |-> 0, width |-> 0, channels |-> 0,
             precision |-> 0]

\* the while loop of parse_jpeg_header from a 0-based index; reading
\* data[index + 1] past the end raises IndexError
RECURSIVE scan_markers(_, _)
scan_markers(data, index) ==
    IF index >= Len(data) THEN NoHeader
    ELSE IF data[index + 1] # 255 THEN scan_markers(data, index + 1)
    ELSE IF index + 1 >= Len(data) THEN [NoHeader EXCEPT !.kind = "IndexError"]
    ELSE LET marker == data[index + 2]
             at == index + 2
         IN  IF marker = 192
             THEN IF at + 8 > Len(data) THEN NoHeader
                  ELSE [kind |-> "header",
                        height |-> unpack_H(Slice(data, at + 3, at + 5)),
                        width |-> unpack_H(Slice(data, at + 5, at + 7)),
                        channels |-> data[at + 8],
                        precision |-> data[at + 3]]
             ELSE IF at + 2 > Len(data) THEN NoHeader
             ELSE IF marker = 218 THEN NoHeader
             ELSE scan_markers(data, at + unpack_H(Slice(data, at, at + 2)))

parse_jpeg_header(data) ==
    IF Len(data) < 2 \/ Slice(data, 0, 2) # SOI THEN NoHeader
    ELSE scan_markers(data, 2)

SignatureWindow == 64
ArchiveWindow == 256

\* image.startswith(b'\xff\x4f') or b'ftyp' in image[:64]
is_jpeg2000(data) ==
    startswith(data, SOC) \/ Contains(Slice(data, 0, SignatureWindow), ftyp)

is_zip_encapsulated(data) ==
    IF Len(data) < 4 THEN FALSE
    ELSE Slice(data, 0, 2) = PK \/ Contains(Slice(data, 0, ArchiveWindow), PK)

\* zipfile.ZipFile(BytesIO(data)): an archive is written here as any bytes
\* in front (zipfile accepts them), then for each of its entries the local
\* file header magic and the content; anything else is not an archive
is_zipfile(data) == Contains(data, PK34)

zip_content(data) ==
    LET at == CHOOSE i \in 0..(Len(data) - 4) :
                  /\ Slice(data, i, i + 4) = PK34
                  /\ \A j \in 0..(i - 1) : Slice(data, j, j + 4) # PK34
    IN  Slice(data, at + 4, Len(data))

\* zf.namelist() with zf.read(name) of each: the contents in order, from
\* the bytes after the first magic
RECURSIVE zip_entries(_)
zip_entries(rest) ==
    IF ~Contains(rest, PK34) THEN <<rest>>
    ELSE LET at == CHOOSE i \in 0..(Len(rest) - 4) :
                       /\ Slice(rest, i, i + 4) = PK34
                       /\ \A j \in 0..(i - 1) : Slice(rest, j, j + 4) # PK34
         IN  <<Slice(rest, 0, at)>> \o zip_entries(Slice(rest, at + 4, Len(rest)))

\* for name in zf.namelist(): the first content that is JPEG 2000 or JPEG
RECURSIVE scan_entries(_, _)
scan_entries(entries, data) ==
    IF entries = <<>> THEN data
    ELSE LET content == Head(entries)
         IN  IF startswith(content, SOC)
                \/ Contains(Slice(content, 0, SignatureWindow), ftyp)
             THEN content
             ELSE IF startswith(content, SOI) THEN content
             ELSE scan_entries(Tail(entries), data)

extract_jpeg2000_from_zip(data) ==
    IF ~is_zipfile(data) THEN data
    ELSE scan_entries(zip_entries(zip_content(data)), data)

JPEGBaseline8Bit == UID("1.2.840.10008.1.2.4.50")
JPEG2000Lossless == UID("1.2.840.10008.1.2.4.90")
ExplicitVRLittleEndian == UID("1.2.840.10008.1.2.1")
CTImageStorage == UID("1.2.840.10008.5.1.4.1.1.2")

\* the state of an assembly: the exception that ended it ("" while it
\* runs), the Dataset, its file_meta and the number of generated UIDs
Assembly(ds, meta, gen) == [err |-> "", ds |-> ds, meta |-> meta, gen |-> gen]

Fails(st, err) == [st EXCEPT !.err = err]

\* int(ds.X), "" when it raises
IntOf(value) ==
    IF value.multi THEN CastError
    ELSE IF value.vals[1].t = "int" THEN Cast(value.vals[1])
    ELSE IF value.vals[1].t = "str" THEN cast_int(value.vals[1].s)
    ELSE CastError

\* bool(value) of an element's value
Truthy(value) ==
    IF value.multi THEN TRUE
    ELSE LET v == value.vals[1]
         IN  IF v.t = "str" THEN v.s # <<>>
             ELSE IF v.t \in {"int", "float"} THEN v.n # 0 ELSE TRUE

\* the body of the tag loop of xa_data._write_dicom: every exception is
\* swallowed and the tag left out
xa_data_tag(st, item) ==
    LET vr == DicomDictionary(item.tag)
        parsed == parse_dcm_value(item.value, vr)
    IN  IF item.tag[1] = 2
        THEN IF vr # "None"
             THEN IF parsed.err # "" THEN st
                  ELSE [st EXCEPT !.meta = setattr(@, item.tag, parsed.value)]
             ELSE st
        ELSE IF vr # "None"
        THEN IF parsed.err # "" THEN st
             ELSE [st EXCEPT !.ds = setattr(@, item.tag, parsed.value)]
        ELSE [st EXCEPT !.ds = add_new(@, item.tag, item.value)]

\* the body of the tag loop of hinacom._write_dicom (guarded = FALSE) and
\* of tdcloud._write_dicom (guarded = TRUE, the "if definition" under
\* group 2): exceptions leave the function
hinacom_tag(st, item, guarded) ==
    LET vr == DicomDictionary(item.tag)
        parsed == parse_dcm_value(item.value, vr)
    IN  IF item.tag[1] = 2
        THEN IF vr = "None"
             THEN IF guarded THEN st ELSE Fails(st, "TypeError")
             ELSE IF parsed.err # "" THEN Fails(st, parsed.err)
             ELSE [st EXCEPT !.meta = setattr(@, item.tag, parsed.value)]
        ELSE IF vr # "None"
        THEN IF parsed.err # "" THEN Fails(st, parsed.err)
             ELSE [st EXCEPT !.ds = setattr(@, item.tag, parsed.value)]
        ELSE [st EXCEPT !.ds = add_new(@, item.tag, item.value)]

\* the one value of a set of one element: a statement's result is computed
\* once and carried to the statements after it
Only(S) == CHOOSE r \in S : TRUE

\* for item in tag_list
RECURSIVE tag_loop(_, _, _)
tag_loop(st, tag_list, site) ==
    IF tag_list = <<>> \/ st.err # "" THEN st
    ELSE Only({tag_loop(next, rest, site) :
                 next \in {IF site = "xa_data" THEN xa_data_tag(st, Head(tag_list))
                           ELSE hinacom_tag(st, Head(tag_list), site = "tdcloud")},
                 rest \in {Tail(tag_list)}})

\* if patient_info: ... of xa_data._write_dicom
xa_data_patient_info(st, patient_info) ==
    IF ~patient_info.given THEN st
    ELSE LET a == IF patient_info.patient_name # <<>>
                  THEN setattr(st.ds, PatientName,
                               Scalar(StrValue(patient_info.patient_name)))
                  ELSE st.ds
             b == setattr(a, Modality, Scalar(StrValue(patient_info.modality)))
             study == ~hasattr(b, StudyInstanceUID)
                      \/ ~Truthy(b[StudyInstanceUID])
             c == IF study
                  THEN setattr(b, StudyInstanceUID, Scalar(generate_uid(st.gen + 1)))
                  ELSE b
             g == IF study THEN st.gen + 1 ELSE st.gen
             ser == ~hasattr(c, SeriesInstanceUID)
                    \/ ~Truthy(c[SeriesInstanceUID])
             d == IF ser
                  THEN setattr(c, SeriesInstanceUID, Scalar(generate_uid(g + 1)))
                  ELSE c
         IN  [st EXCEPT !.ds = d, !.gen = IF ser THEN g + 1 ELSE g]

SetAll(ds, tags, value) ==
    [x \in DOMAIN ds \cup tags |-> IF x \in tags THEN value ELSE ds[x]]

\* SOPClassUID / SOPInstanceUID and their mirrors in file_meta
xa_data_identifiers_own(st) ==
    LET a == IF hasattr(st.ds, SOPClassUID) THEN st.ds
             ELSE setattr(st.ds, SOPClassUID, Scalar(CTImageStorage))
        m == IF hasattr(st.meta, MediaStorageSOPClassUID) THEN st.meta
             ELSE setattr(st.meta, MediaStorageSOPClassUID, a[SOPClassUID])
        new_uid == Scalar(generate_uid(st.gen + 1))
    IN  IF hasattr(a, SOPInstanceUID)
        THEN [st EXCEPT !.ds = a,
                        !.meta = setattr(m, MediaStorageSOPInstanceUID,
                                         a[SOPInstanceUID])]
        ELSE [st EXCEPT !.ds = setattr(a, SOPInstanceUID, new_uid),
                        !.meta = setattr(m, MediaStorageSOPInstanceUID, new_uid),
                        !.gen = @ + 1]

xa_data_identifiers(st) ==
    LET a == IF hasattr(st.ds, SOPClassUID) THEN st.ds
             ELSE setattr(st.ds, SOPClassUID, Scalar(CTImageStorage))
        m == setattr(st.meta, MediaStorageSOPClassUID, a[SOPClassUID])
        new_uid == Scalar(generate_uid(st.gen + 1))
    IN  IF hasattr(a, SOPInstanceUID)
        THEN [st EXCEPT !.ds = a,
                        !.meta = setattr(m, MediaStorageSOPInstanceUID,
                                         a[SOPInstanceUID])]
        ELSE [st EXCEPT !.ds = setattr(a, SOPInstanceUID, new_uid),
                        !.meta = setattr(m, MediaStorageSOPInstanceUID, new_uid),
                        !.gen = @ + 1]

hinacom_identifiers(st) ==
    IF ~hasattr(st.ds, SOPClassUID) \/ ~hasattr(st.ds, SOPInstanceUID)
    THEN Fails(st, "AttributeError")
    ELSE [st EXCEPT !.meta =
             setattr(setattr(@, MediaStorageSOPClassUID, st.ds[SOPClassUID]),
                     MediaStorageSOPInstanceUID, st.ds[SOPInstanceUID])]

\* the branch "if jpeg_info" of xa_data._write_dicom
xa_data_jpeg(ds, jpeg_info) ==
    LET a == setattr(setattr(setattr(ds, Rows, Scalar(IntValue(jpeg_info.height))),
                             Columns, Scalar(IntValue(jpeg_info.width))),
                     SamplesPerPixel, Scalar(IntValue(jpeg_info.channels)))
        b == setattr(setattr(SetAll(a, {BitsAllocated, BitsStored}, Scalar(IntValue(8))),
                             HighBit, Scalar(IntValue(7))),
                     PixelRepresentation, Scalar(IntValue(0)))
        c == IF jpeg_info.channels = 3
             THEN setattr(setattr(b, PhotometricInterpretation,
                                  Scalar(StrValue(<<"YBR_FULL_422">>))),
                          PlanarConfiguration, Scalar(IntValue(0)))
             ELSE setattr(b, PhotometricInterpretation,
                          Scalar(StrValue(<<"MONOCHROME2">>)))
        tags_to_delete == {RescaleIntercept, RescaleSlope, RescaleType,
                           WindowCenter, WindowWidth, WindowCenterWidthExplanation}
        d == [x \in DOMAIN c \ tags_to_delete |-> c[x]]
    IN  setattr(setattr(d, WindowCenter, Scalar(StrValue(<<"1", "2", "8">>))),
                WindowWidth, Scalar(StrValue(<<"2", "5", "6">>)))

DefaultRows == 512

\* if not hasattr(ds, 'BitsAllocated'): ds.BitsAllocated = 16, and so on
xa_data_defaults(ds) ==
    LET a == IF hasattr(ds, BitsAllocated) THEN ds
             ELSE setattr(ds, BitsAllocated, Scalar(IntValue(16)))
        b == IF hasattr(a, Rows) THEN a
             ELSE setattr(a, Rows, Scalar(IntValue(DefaultRows)))
    IN  IF hasattr(b, Columns) THEN b
        ELSE setattr(b, Columns, Scalar(IntValue(DefaultRows)))

\* the try block of the last branch: 8 bits when the size is rows * cols
xa_data_eight_bits(ds, image) ==
    LET rows == IF hasattr(ds, Rows) THEN IntOf(ds[Rows])
                ELSE Cast(IntValue(DefaultRows))
        cols == IF hasattr(ds, Columns) THEN IntOf(ds[Columns])
                ELSE Cast(IntValue(DefaultRows))
    IN  IF ~rows.ok \/ ~cols.ok THEN ds
        ELSE IF Len(image) = rows.value.n * cols.value.n
        THEN setattr(SetAll(ds, {BitsAllocated, BitsStored}, Scalar(IntValue(8))),
                     HighBit, Scalar(IntValue(7)))
        ELSE ds

\* the classification of the pixel bytes by xa_data._write_dicom: the
\* branch taken, the transfer syntax, is_compressed and the payload
xa_data_classify_wrap(image) ==
    LET raw_data == extract_jpeg2000_from_zip(image)
    IN  IF parse_jpeg_header(image).kind = "header"
        THEN [branch |-> "jpeg", ts |-> JPEGBaseline8Bit,
              is_compressed |-> TRUE, image |-> image]
        ELSE IF is_jpeg2000(image)
        THEN [branch |-> "jpeg2000", ts |-> JPEG2000Lossless,
              is_compressed |-> TRUE, image |-> image]
        ELSE IF is_zip_encapsulated(image)
        THEN IF is_jpeg2000(raw_data)
             THEN [branch |-> "zip", ts |-> JPEG2000Lossless,
                   is_compressed |-> TRUE, image |-> raw_data]
             ELSE [branch |-> "zip", ts |-> ExplicitVRLittleEndian,
                   is_compressed |-> TRUE, image |-> image]
        ELSE [branch |-> "raw", ts |-> ExplicitVRLittleEndian,
              is_compressed |-> FALSE, image |-> image]

xa_data_classify(image) ==
    LET raw_data == extract_jpeg2000_from_zip(image)
    IN  IF parse_jpeg_header(image).kind = "header"
        THEN [branch |-> "jpeg", ts |-> JPEGBaseline8Bit,
              is_compressed |-> TRUE, image |-> image]
        ELSE IF is_jpeg2000(image)
        THEN [branch |-> "jpeg2000", ts |-> JPEG2000Lossless,
              is_compressed |-> TRUE, image |-> image]
        ELSE IF is_zip_encapsulated(image)
        THEN IF is_jpeg2000(raw_data)
             THEN [branch |-> "zip", ts |-> JPEG2000Lossless,
                   is_compressed |-> TRUE, image |-> raw_data]
             ELSE [branch |-> "zip", ts |-> ExplicitVRLittleEndian,
                   is_compressed |-> FALSE, image |-> image]
        ELSE [branch |-> "raw", ts |-> ExplicitVRLittleEndian,
              is_compressed |-> FALSE, image |-> image]

\* from jpeg_info = parse_jpeg_header(image) to ds.PixelData = ...
xa_data_pixels(st, image) ==
    LET jpeg_info == parse_jpeg_header(image)
        c == xa_data_classify(image)
        ds == IF c.branch = "jpeg" THEN xa_data_jpeg(st.ds, jpeg_info)
              ELSE IF c.branch = "raw" THEN xa_data_eight_bits(st.ds, image)
              ELSE xa_data_defaults(st.ds)
    IN  IF jpeg_info.kind = "IndexError" THEN Fails(st, "IndexError")
        ELSE [st EXCEPT
                 !.meta = setattr(@, TransferSyntaxUID, Scalar(c.ts)),
                 !.ds = setattr(ds, PixelData,
                                Scalar(IF c.is_compressed THEN encapsulate(c.image)
                                       ELSE Native(c.image)))]

\* from px_size = ... to ds.file_meta.TransferSyntaxUID = ... of hinacom
\* and tdcloud
hinacom_pixels(st, image) ==
    LET present == {BitsAllocated, Rows, Columns} \subseteq DOMAIN st.ds
        bits == IntOf(st.ds[BitsAllocated])
        rows == IntOf(st.ds[Rows])
        cols == IntOf(st.ds[Columns])
        px_size == ((bits.value.n + 7) \div 8) * rows.value.n * cols.value.n
    IN  IF ~present THEN Fails(st, "AttributeError")
        ELSE IF ~bits.ok \/ ~rows.ok \/ ~cols.ok THEN Fails(st, "TypeError")
        ELSE IF Slice(image, 16, 23) = ftypjp2 /\ Len(image) # px_size
        THEN [st EXCEPT
                 !.ds = setattr(@, PixelData, Scalar(encapsulate(image))),
                 !.meta = setattr(@, TransferSyntaxUID, Scalar(JPEG2000Lossless))]
        ELSE [st EXCEPT
                 !.ds = setattr(@, PixelData, Scalar(Native(image))),
                 !.meta = setattr(@, TransferSyntaxUID, Scalar(ExplicitVRLittleEndian))]

\* a step of an assembly that may have ended already
Then(st, next) == IF st.err # "" THEN st ELSE next

\* xa_data._write_dicom up to ds.save_as, after gen calls of generate_uid
xa_data_assemble(gen, tag_list, image, patient_info) ==
    LET first == Assembly(setattr(EmptyDataset, SpecificCharacterSet,
                                  Scalar(StrValue(<<"ISO_IR 192">>))),
                          EmptyDataset, gen)
        stamp(tagged) ==
            [tagged EXCEPT !.meta =
                setattr(setattr(@, ImplementationClassUID,
                                Scalar(UID("1.2.826.0.1.3680043.8.498"))),
                        ImplementationVersionName,
                        Scalar(StrValue(<<"XA-DATA-PY">>)))]
    IN  Only({xa_data_pixels(named, image) :
                named \in {xa_data_identifiers(stamp(informed)) :
                  informed \in {xa_data_patient_info(tagged, patient_info) :
                    tagged \in {tag_loop(first, tag_list, "xa_data")}}}})

xa_data_write_dicom(tag_list, image, patient_info) ==
    xa_data_assemble(0, tag_list, image, patient_info)

\* hinacom._write_dicom and tdcloud._write_dicom
hinacom_write_dicom(tag_list, image, site) ==
    Only({Then(named, hinacom_pixels(named, image)) :
            named \in {Then(tagged, hinacom_identifiers(tagged)) :
              tagged \in {tag_loop(Assembly(EmptyDataset, EmptyDataset, 0),
                                   tag_list, site)}}})

(***************************************************************************)
(* _write_dicom on its own: a tag list made of the identifiers and the     *)
(* geometry of an instance (or a part of them) followed by a few more      *)
(* tags, and pixel bytes of every kind of signature.                       *)
(***************************************************************************)
MaxExtra == 2       \* tags after the identifiers and the geometry

Item(tag, value) == [tag |-> tag, value |-> value]

Identifiers == <<Item(SOPClassUID, <<"5">>), Item(SOPInstanceUID, <<"6">>)>>

Geometry ==
    <<Item(Rows, <<"2">>), Item(Columns, <<"2">>), Item(BitsAllocated, <<"1", "6">>)>>

TagLists ==
    {<<>>, Geometry, Identifiers, Identifiers \o Geometry,
     <<Identifiers[1]>> \o Geometry, <<Identifiers[2]>> \o Geometry}

PrivateTag == <<9, 16>>
UnknownMetaTag == <<2, 153>>

ExtraItems ==
    {Item(MediaStorageSOPClassUID, <<"9">>),
     Item(MediaStorageSOPInstanceUID, <<"8">>),
     Item(FileMetaInformationVersion, <<"1">>),
     Item(UnknownMetaTag, <<"1">>),
     Item(PrivateTag, <<"a", "\\", "b">>),
     Item(Rows, <<"a">>),
     Item(Rows, <<"4">>),
     Item(WindowCenter, <<"4">>)}

Extras == UNION {[1..n -> ExtraItems] : n \in 0..MaxExtra}

\* pixel bytes: 8, 4 and 3 bytes without signature; a baseline JPEG of
\* 3 rows and 5 columns, a progressive one, a cut one; a codestream; a JP2
\* container; an archive of a codestream, of something else, the same after
\* one byte; bytes holding PK that are no archive; an archive of a JPEG
\* and a codestream; an archive of a JP2 container stored as it is; bytes
\* that begin with PK and are no archive
Images ==
    {<<1, 2, 3, 4, 5, 6, 7, 8>>,
     <<1, 2, 3, 4>>,
     <<1, 2, 3>>,
     <<255, 216, 255, 192, 0, 11, 8, 0, 3, 0, 5, 1>>,
     <<255, 216, 255, 194, 0, 11, 8, 0, 3, 0, 5, 1>>,
     <<255, 216, 255>>,
     <<255, 79, 255, 81>>,
     <<0, 0, 0, 12, 106, 80, 32, 32, 13, 10, 135, 10, 0, 0, 0, 20,
       102, 116, 121, 112, 106, 112, 50>>,
     <<80, 75, 3, 4, 255, 79, 255, 81>>,
     <<80, 75, 3, 4, 1, 2, 3, 4>>,
     <<1, 80, 75, 3, 4, 255, 79, 9>>,
     <<1, 80, 75, 9, 5, 6, 7, 8>>,
     <<80, 75, 3, 4, 255, 216, 9, 80, 75, 3, 4, 255, 79, 9>>,
     <<80, 75, 3, 4, 0, 0, 0, 12, 102, 116, 121, 112>>,
     <<80, 75, 9, 9, 1>>}

Sites == {"xa_data", "hinacom", "tdcloud"}

NoPatientInfo == [given |-> FALSE, patient_name |-> <<>>, modality |-> <<>>]

PatientInfos ==
    {NoPatientInfo,
     [given |-> TRUE, patient_name |-> <<"N">>, modality |-> <<"C", "T">>]}

\* the file the instance is saved to
Filename == << <<"1", ".", "d", "c", "m">> >>

InitWrite ==
    /\ NoCrawl
    /\ \E site \in Sites, tag_list \in TagLists, extra \in Extras,
          image \in Images, patient_info \in PatientInfos :
         /\ site # "xa_data" => patient_info = NoPatientInfo
         /\ arg = [fn |-> "_write_dicom", site |-> site,
                   tag_list |-> tag_list \o extra, image |-> image,
                   patient_info |-> patient_info]
    /\ out = NoOut

\* _write_dicom(tag_list, image, filename): the assembly, then ds.save_as
WriteDicom ==
    /\ arg.fn = "_write_dicom"
    /\ ~out.done
    /\ \E st \in {IF arg.site = "xa_data"
                  THEN xa_data_write_dicom(arg.tag_list, arg.image, arg.patient_info)
                  ELSE hinacom_write_dicom(arg.tag_list, arg.image, arg.site)} :
           /\ out' = IF st.err # "" THEN Raised(st.err) ELSE Returned(st)
           /\ files' = IF st.err # "" THEN files
                       ELSE files \cup {[path |-> Filename, by |-> 0, idx |-> 0]}
    /\ UNCHANGED <<dirs, ro, series, pending, lastErr, ret, op, arg>>

NextWrite == WriteDicom

SpecWrite == InitWrite /\ [][NextWrite]_vars

(***************************************************************************)
(* Vocabulary of the properties of _write_dicom                            *)
(***************************************************************************)
Wrote == arg.fn = "_write_dicom" /\ out.done

Assembled == Wrote /\ out.err = ""

Dataset == out.value.ds

FileMeta == out.value.meta

\* the assembly of a tag list by the site and with the pixels of the call
AssemblyOf(tag_list) ==
    IF arg.site = "xa_data"
    THEN xa_data_write_dicom(tag_list, arg.image, arg.patient_info)
    ELSE hinacom_write_dicom(tag_list, arg.image, arg.site)

InputTags == {arg.tag_list[i].tag : i \in 1..Len(arg.tag_list)}

\* the raw value given last for a tag
LastValue(tag) ==
    LET at == CHOOSE i \in 1..Len(arg.tag_list) :
                  /\ arg.tag_list[i].tag = tag
                  /\ \A j \in (i + 1)..Len(arg.tag_list) : arg.tag_list[j].tag # tag
    IN  arg.tag_list[at].value

\* the text of a value of strings, its elements joined by backslashes
RECURSIVE Joined(_)
Joined(vals) ==
    IF Len(vals) = 0 THEN <<>>
    ELSE IF Len(vals) = 1 THEN vals[1].s
    ELSE vals[1].s \o <<"\\">> \o Joined(Tail(vals))

\* the tag list without its items of a set of tags
RECURSIVE Without(_, _)
Without(tag_list, tags) ==
    IF tag_list = <<>> THEN <<>>
    ELSE IF Head(tag_list).tag \in tags THEN Without(Tail(tag_list), tags)
    ELSE <<Head(tag_list)>> \o Without(Tail(tag_list), tags)

\* C14: after assemble of any tag list the dataset holds no element of
\* group 2, and every input tag of group 2 found in the dictionary is in meta
C14_Partition ==
    Assembled =>
        /\ \A tag \in DOMAIN Dataset : tag[1] # 2
        /\ \A tag \in InputTags :
             tag[1] = 2 /\ DicomDictionary(tag) # "None" => tag \in DOMAIN FileMeta

\* C15: every input tag absent from the dictionary, whatever its group, is
\* stored in the dataset with its raw value verbatim as a string element,
\* never in meta, never dropped, and never makes the assembly fail
C15_Verbatim ==
    Wrote =>
        \A tag \in InputTags :
            DicomDictionary(tag) = "None" =>
                /\ AssemblyOf(Without(arg.tag_list, {tag})).err = "" => out.err = ""
                /\ out.err = "" =>
                     /\ tag \in DOMAIN Dataset
                     /\ tag \notin DOMAIN FileMeta
                     /\ \A k \in 1..Len(Dataset[tag].vals) :
                          Dataset[tag].vals[k].t = "str"
                     /\ Joined(Dataset[tag].vals) = LastValue(tag)

\* C16: after assemble of any tag list the media-storage class and instance
\* identifiers of meta equal the class and instance identifiers of the
\* dataset
C16_Mirror ==
    Assembled =>
        /\ {SOPClassUID, SOPInstanceUID} \subseteq DOMAIN Dataset
        /\ {MediaStorageSOPClassUID, MediaStorageSOPInstanceUID} \subseteq DOMAIN FileMeta
        /\ FileMeta[MediaStorageSOPClassUID] = Dataset[SOPClassUID]
        /\ FileMeta[MediaStorageSOPInstanceUID] = Dataset[SOPInstanceUID]

\* C16 witness: a tag list that carries its own group-2 identifiers, other
\* than those of the dataset, assembled with the dataset's in meta
C16_Witness ==
    /\ Assembled
    /\ {MediaStorageSOPClassUID, MediaStorageSOPInstanceUID, SOPClassUID,
        SOPInstanceUID} \subseteq InputTags
    /\ LastValue(MediaStorageSOPClassUID) # LastValue(SOPClassUID)
    /\ LastValue(MediaStorageSOPInstanceUID) # LastValue(SOPInstanceUID)
    /\ FileMeta[MediaStorageSOPClassUID] = Scalar(StrValue(LastValue(SOPClassUID)))
    /\ FileMeta[MediaStorageSOPInstanceUID] = Scalar(StrValue(LastValue(SOPInstanceUID)))

IsGenerated(value) ==
    ~value.multi /\ value.vals[1].t = "uid" /\ value.vals[1].s = <<"generated">>

\* the tag list with the identifiers it lacks put in front
Completed ==
    LET lacking == SelectSeq(Identifiers, LAMBDA item : item.tag \notin InputTags)
    IN  lacking \o arg.tag_list

\* C17: when the tag list has no class identifier and/or no instance
\* identifier the assembly does not fail: each missing one is generated,
\* stored in the dataset and mirrored into meta
C17_Generated ==
    Wrote /\ ~({SOPClassUID, SOPInstanceUID} \subseteq InputTags)
          /\ AssemblyOf(Completed).err = "" =>
        /\ out.err = ""
        /\ \A id \in {SOPClassUID, SOPInstanceUID} \ InputTags :
             /\ id \in DOMAIN Dataset
             /\ IsGenerated(Dataset[id])
        /\ FileMeta[MediaStorageSOPClassUID] = Dataset[SOPClassUID]
        /\ FileMeta[MediaStorageSOPInstanceUID] = Dataset[SOPInstanceUID]

\* the signatures a pixel byte string can begin with: the baseline marker,
\* the codestream marker, a box container (ftyp near the start), an archive
BaselineMarker == startswith(arg.image, SOI)
CodestreamMarker == startswith(arg.image, SOC)
BoxContainer == Contains(Slice(arg.image, 0, SignatureWindow), ftyp)
ArchiveSignature == startswith(arg.image, PK)

NoSignature ==
    ~BaselineMarker /\ ~CodestreamMarker /\ ~BoxContainer /\ ~ArchiveSignature

\* an attribute of the dataset as a number, 0 when it is none
Number(tag) ==
    IF tag \in DOMAIN Dataset /\ IntOf(Dataset[tag]).ok
    THEN IntOf(Dataset[tag]).value.n ELSE 0

\* the size of uncompressed pixels of the dataset
ExactSize ==
    Len(arg.image) = Number(Rows) * Number(Columns)
                         * ((Number(BitsAllocated) + 7) \div 8)

\* the classification of the pixel bytes
PixelEncoding ==
    IF BaselineMarker THEN "BaselineCompressed"
    ELSE IF CodestreamMarker \/ BoxContainer THEN "RawCodestream"
    ELSE IF ArchiveSignature
    THEN IF is_jpeg2000(extract_jpeg2000_from_zip(arg.image))
         THEN "ArchivedCodestream" ELSE "ArchiveFallback"
    ELSE IF ExactSize THEN "Uncompressed"
    ELSE "Fallback"

StoredDirectly == Dataset[PixelData] = Scalar(Native(arg.image))

OneFragment ==
    /\ ~Dataset[PixelData].multi
    /\ Dataset[PixelData].vals[1].t = "fragments"
    /\ Dataset[PixelData].vals[1].n = 1

CompressedSyntaxes == {Scalar(JPEGBaseline8Bit), Scalar(JPEG2000Lossless)}

C19_Baseline ==
    Wrote /\ arg.site = "xa_data" /\ BaselineMarker =>
        /\ out.err = ""
        /\ FileMeta[TransferSyntaxUID] = Scalar(JPEGBaseline8Bit)
        /\ OneFragment
        /\ parse_jpeg_header(arg.image).kind = "header"
        /\ Dataset[Rows] = Scalar(IntValue(parse_jpeg_header(arg.image).height))
        /\ Dataset[Columns] = Scalar(IntValue(parse_jpeg_header(arg.image).width))

\* what does hold: the same for the byte strings in which a baseline frame
\* header is found
C19_FrameHeader ==
    Wrote /\ arg.site = "xa_data" /\ parse_jpeg_header(arg.image).kind = "header" =>
        /\ out.err = ""
        /\ FileMeta[TransferSyntaxUID] = Scalar(JPEGBaseline8Bit)
        /\ OneFragment
        /\ Dataset[Rows] = Scalar(IntValue(3))
        /\ Dataset[Columns] = Scalar(IntValue(5))

C20_NoArchive ==
    Assembled /\ NoSignature /\ ~is_zip_encapsulated(arg.image)
              /\ Len(arg.image) = Number(Rows) * Number(Columns) * 2 =>
        /\ FileMeta[TransferSyntaxUID] = Scalar(ExplicitVRLittleEndian)
        /\ StoredDirectly

\* the assembly came to its pixel steps: the tag loop and the identifiers
\* before them did not end it
ReachedPixels ==
    \/ arg.site = "xa_data"
    \/ Only({Then(tagged, hinacom_identifiers(tagged)) :
               tagged \in {tag_loop(Assembly(EmptyDataset, EmptyDataset, 0),
                                    arg.tag_list, arg.site)}}).err = ""

\* C21: for every pixel byte string the classification and the
\* encapsulation, frame-header parsing and archive scanning included, end
\* without raising
C21_NeverRaises == Wrote /\ ReachedPixels => out.err = ""

\* what does hold: in xa_data they raise for no byte string whose header
\* scan ends inside the data
C21_HeaderScanned ==
    Wrote /\ arg.site = "xa_data" /\ parse_jpeg_header(arg.image).kind # "IndexError"
        => out.err = ""

(***************************************************************************)
(* The loop over the images of one series with the assembly of each:       *)
(* xa_data._do_run (fetch, build_minimal_tags, then get and _write_dicom   *)
(* inside try) and download_all of hinacom and tdcloud (get_tags,          *)
(* get_image, then get and _write_dicom).  The series goes into a study    *)
(* directory that may hold a directory of its name and may refuse new      *)
(* entries.                                                                *)
(***************************************************************************)
MaxRecords == 2     \* images of the series

\* str.upper, on the letters of the modalities
upper(text) ==
    [i \in 1..Len(text) |->
        CASE text[i] = "c" -> "C" [] text[i] = "t" -> "T"
          [] text[i] = "m" -> "M" [] text[i] = "r" -> "R" [] OTHER -> text[i]]

\* MODALITY_SOP_CLASS_MAP, its entries CT and MR
MODALITY_SOP_CLASS_MAP(modality) ==
    CASE modality = <<"C", "T">> -> <<"1.2.840.10008.5.1.4.1.1.2">>
      [] modality = <<"M", "R">> -> <<"1.2.840.10008.5.1.4.1.1.4">>
      [] OTHER -> <<>>

HasTag(tags, tag) == \E i \in 1..Len(tags) : tags[i].tag = tag

\* the items a truthy field gives
Given(tag, field) == IF field # <<>> THEN <<Item(tag, field)>> ELSE <<>>

\* build_minimal_tags(info, patient_info); the patient_info of the model
\* has the keys patient_name and modality only.  modality.upper() raises on
\* a modality that is no str.
build_minimal_tags(info, patient_info) ==
    LET tags == Given(SOPClassUID, info.sopClassUid)
                  \o Given(SOPInstanceUID, info.instanceUid)
                  \o Given(Rows, info.rows) \o Given(Columns, info.columns)
        modality == IF patient_info.given /\ patient_info.modality # <<>>
                    THEN [str |-> TRUE, s |-> patient_info.modality]
                    ELSE info.modality
        known == modality.s # <<>> /\ MODALITY_SOP_CLASS_MAP(upper(modality.s)) # <<>>
        class == IF HasTag(tags, SOPClassUID) THEN <<>>
                 ELSE IF known
                 THEN <<Item(SOPClassUID, MODALITY_SOP_CLASS_MAP(upper(modality.s)))>>
                 ELSE <<Item(SOPClassUID, <<"1.2.840.10008.5.1.4.1.1.2">>)>>
        instance == IF HasTag(tags, SOPInstanceUID) THEN <<>>
                    ELSE <<Item(SOPInstanceUID, <<"1.2.3.4.5.6.7.8.9.10">>)>>
        rows == IF HasTag(tags, Rows) THEN <<>>
                ELSE <<Item(Rows, <<"5", "1", "2">>)>>
        columns == IF HasTag(tags, Columns) THEN <<>>
                   ELSE <<Item(Columns, <<"5", "1", "2">>)>>
        required == <<Item(BitsAllocated, <<"1", "6">>),
                      Item(SamplesPerPixel, <<"1">>),
                      Item(PhotometricInterpretation, <<"MONOCHROME2">>),
                      Item(BitsStored, <<"1", "6">>),
                      Item(HighBit, <<"1", "5">>),
                      Item(PixelRepresentation, <<"0">>)>>
    IN  IF ~HasTag(tags, SOPClassUID) /\ ~modality.str
        THEN Raised("AttributeError")
        ELSE Returned(tags \o class \o instance \o rows \o columns \o required)

\* tags = [{'tag': '0008,0016', ...}] of _do_run when there are no tags
SecondaryCaptureTags == <<Item(SOPClassUID, <<"1.2.840.10008.5.1.4.1.1.7">>)>>

\* ds.save_as(filename) as the first statement
save_as_early(disk, filename, index, st) ==
    [p \in DOMAIN disk \cup {filename} |->
        IF p = filename THEN [i |-> index, st |-> st] ELSE disk[p]]

\* ds.save_as(filename): the last statement of _write_dicom, not reached
\* when a statement before it raises
save_as(disk, filename, index, st) ==
    IF st.err # "" THEN disk
    ELSE [p \in DOMAIN disk \cup {filename} |->
             IF p = filename THEN [i |-> index, st |-> st] ELSE disk[p]]

NoFiles == [p \in {} |-> [i |-> 0, st |-> Assembly(EmptyDataset, EmptyDataset, 0)]]

\* the tags and the pixels the crawler of the site has for a record when it
\* comes to dir_.get and _write_dicom
TagsOf(rec) ==
    IF arg.site # "xa_data" THEN rec.tags
    ELSE Only({IF built.err # "" THEN SecondaryCaptureTags ELSE built.value :
                 built \in {build_minimal_tags(rec.info, arg.patient_info)}})

AssembleAt(gen, rec) ==
    Only({IF arg.site = "xa_data"
          THEN xa_data_assemble(gen, tags, rec.image, arg.patient_info)
          ELSE hinacom_write_dicom(tags, rec.image, arg.site) :
            tags \in {TagsOf(rec)}})

\* the image is passed over before dir_.get: no pixels (xa_data), no tags
\* (hinacom, tdcloud)
PassedOver(rec) ==
    IF arg.site = "xa_data" THEN ~rec.fetched ELSE rec.tags = <<>>

\* an exception of get or _write_dicom: printed by xa_data._do_run, which
\* goes on with the next image; it leaves download_all
Excepted(err) ==
    IF arg.site = "xa_data"
    THEN out' = [out EXCEPT !.i = @ + 1, !.errors = @ + 1]
    ELSE out' = [out EXCEPT !.done = TRUE, !.err = err]

\* what follows dir_.get(i, 'dcm') in the iteration
AfterGet ==
    IF pending' # NoCall THEN out' = out
    ELSE IF lastErr' # "" THEN Excepted(lastErr')
    ELSE \E st \in {AssembleAt(out.gen, arg.records[out.i + 1])} :
           IF st.err = ""
           THEN out' = [out EXCEPT !.i = @ + 1, !.gen = st.gen,
                                   !.disk = save_as(@, ret', out.i, st)]
           ELSE IF arg.site = "xa_data"
           THEN out' = [out EXCEPT !.i = @ + 1, !.errors = @ + 1, !.gen = st.gen,
                                   !.disk = save_as(@, ret', out.i, st)]
           ELSE out' = [out EXCEPT !.done = TRUE, !.err = st.err,
                                   !.disk = save_as(@, ret', out.i, st)]

Running == arg.fn = "run" /\ ~out.done

\* an image that is passed over: continue
RunSkip ==
    /\ Running
    /\ Idle
    /\ out.i < Len(arg.records)
    /\ PassedOver(arg.records[out.i + 1])
    /\ op' = Op("skip", out.i, <<>>)
    /\ out' = [out EXCEPT !.i = @ + 1]
    /\ UNCHANGED <<dirs, files, ro, series, pending, lastErr, ret, arg>>

\* one iteration of for i, info in enumerate(tasks): dir_.get(i, 'dcm'),
\* or the nested call of make_unique_dir that get is at, then _write_dicom
RunInstance ==
    /\ Running
    /\ ro' = ro
    /\ \/ /\ Idle
          /\ out.i < Len(arg.records)
          /\ ~PassedOver(arg.records[out.i + 1])
          /\ op' = Op("get", out.i, Ext_dcm)
          /\ get(1, out.i, Ext_dcm, "run")
       \/ /\ ~Idle
          /\ op' = Op("retry", pending.index, pending.ext)
          /\ Activation(pending.s, series[pending.s], pending.index, pending.ext,
                        pending.caller, pending.path, pending.depth)
    /\ AfterGet
    /\ arg' = arg

\* the loop is over
RunEnd ==
    /\ Running
    /\ out.i = Len(arg.records)
    /\ out' = [out EXCEPT !.done = TRUE]
    /\ op' = Op("end", out.i, <<>>)
    /\ UNCHANGED <<dirs, files, ro, series, pending, lastErr, ret, arg>>

NoModality == [str |-> TRUE, s |-> <<>>]

Info(class, instance, rows, columns, modality) ==
    [sopClassUid |-> class, instanceUid |-> instance, rows |-> rows,
     columns |-> columns, modality |-> modality]

\* remote records of xa_data: without any field, with an instance
\* identifier, with all identifiers and the geometry, with a modality, with
\* a modality that is a number
Infos ==
    {Info(<<>>, <<>>, <<>>, <<>>, NoModality),
     Info(<<>>, <<"7">>, <<>>, <<>>, NoModality),
     Info(<<"5">>, <<"8">>, <<"2">>, <<"2">>, NoModality),
     Info(<<>>, <<>>, <<>>, <<>>, [str |-> TRUE, s |-> <<"m", "r">>]),
     Info(<<>>, <<>>, <<>>, <<>>, [str |-> FALSE, s |-> <<>>])}

RunImages == {<<1, 2, 3>>, <<255, 216, 255>>}

\* the tag lists GetImageDicomTags answers: none, a full one, one with a
\* value that does not coerce, one without identifiers
RunTagLists ==
    {<<>>, Identifiers \o Geometry,
     Identifiers \o Geometry \o <<Item(Rows, <<"a">>)>>, Geometry}

Records ==
    {[info |-> info, tags |-> <<>>, fetched |-> TRUE, image |-> image] :
        info \in Infos, image \in RunImages}
    \cup {[info |-> info, tags |-> <<>>, fetched |-> FALSE, image |-> <<>>] :
            info \in Infos}

TagRecords ==
    {[info |-> Info(<<>>, <<>>, <<>>, <<>>, NoModality), tags |-> tags,
      fetched |-> TRUE, image |-> image] :
        tags \in RunTagLists, image \in RunImages}

InitRun ==
    /\ \E k \in 0..1, denied \in BOOLEAN, site \in Sites,
          n \in 1..MaxRecords, patient_info \in PatientInfos :
         /\ site # "xa_data" => patient_info = NoPatientInfo
         /\ dirs = {Cwd, DownloadDir, StudyDir} \cup PreDirs(k)
         /\ ro = IF denied THEN {StudyDir} ELSE {}
         /\ series = <<NewObject(StudyDir, NoNumber, <<"X">>, n, TRUE)>>
         /\ \E records \in [1..n -> IF site = "xa_data" THEN Records ELSE TagRecords] :
              arg = [fn |-> "run", site |-> site, records |-> records,
                     patient_info |-> patient_info]
    /\ files = {}
    /\ pending = NoCall
    /\ lastErr = ""
    /\ ret = None
    /\ op = Op("init", 0, <<>>)
    /\ out = [done |-> FALSE, err |-> "", i |-> 0, errors |-> 0, gen |-> 0,
              disk |-> NoFiles]

NextRun == RunSkip \/ RunInstance \/ RunEnd

SpecRun == InitRun /\ [][NextRun]_vars

(***************************************************************************)
(* Vocabulary of the properties of the loop                                *)
(***************************************************************************)
Ran == arg.fn = "run"

\* the images of the series that had their turn in the loop
Turns == out.i

\* C22: a failure while assembling or writing image i aborts only that
\* image: when the loop has ended every image of the series has had its
\* turn
C22_Continues == Ran /\ out.done => Turns = Len(arg.records)

\* what does hold: the same in xa_data, whose loop catches the exceptions
C22_Caught == Ran /\ out.done /\ arg.site = "xa_data" => Turns = Len(arg.records)

\* get has returned the final path of the image in this step
GotPath ==
    /\ op'.name \in {"get", "retry"}
    /\ pending' = NoCall
    /\ lastErr' = ""

\* the files of the images
Disk == out.disk

\* C23: the file of an image is written at its final path only after the
\* image is fully assembled in memory: a step of the loop leaves every file
\* written before as it is, a file it writes holds the whole assembled
\* instance, and when the assembly fails there is no file at the final path
C23_WrittenWhole ==
    [][Ran =>
        /\ \A p \in DOMAIN Disk : p \in DOMAIN Disk' /\ Disk'[p] = Disk[p]
        /\ \A p \in DOMAIN Disk' \ DOMAIN Disk :
             /\ p = ret'
             /\ Disk'[p].st = AssembleAt(out.gen, arg.records[out.i + 1])
             /\ Disk'[p].st.err = ""
             /\ PixelData \in DOMAIN Disk'[p].st.ds
             /\ TransferSyntaxUID \in DOMAIN Disk'[p].st.meta
        /\ GotPath /\ AssembleAt(out.gen, arg.records[out.i + 1]).err # ""
             => ret' \notin DOMAIN Disk']_vars

\* C23 witness: the first image is written, the assembly of the second has
\* failed, and the loop has ended
C23_Witness ==
    /\ Ran
    /\ out.done
    /\ Len(arg.records) = 2
    /\ out.errors = 1
    /\ \E p \in DOMAIN Disk : Disk[p].i = 0
    /\ Cardinality(DOMAIN Disk) = 1
    /\ lastErr = ""

\* the remote record of the image of a file carries no instance identifier
Anonymous(p) == arg.records[Disk[p].i + 1].info.instanceUid = <<>>

\* C29: in xa_data any two images of a crawl whose remote records carry no
\* instance identifier are written with different SOP instance identifiers
C29_Distinct ==
    Ran /\ arg.site = "xa_data" =>
        \A p, q \in DOMAIN Disk :
            p # q /\ Anonymous(p) /\ Anonymous(q) =>
                Disk[p].st.ds[SOPInstanceUID] # Disk[q].st.ds[SOPInstanceUID]

\* what does hold: the identifiers that _write_dicom generates differ
C29_Generated ==
    Ran /\ arg.site = "xa_data" =>
        \A p, q \in DOMAIN Disk :
            /\ p # q
            /\ IsGenerated(Disk[p].st.ds[SOPInstanceUID])
            /\ IsGenerated(Disk[q].st.ds[SOPInstanceUID])
            => Disk[p].st.ds[SOPInstanceUID] # Disk[q].st.ds[SOPInstanceUID]

\* the contents of the entries of the archive that the pixel bytes are
Entries ==
    IF is_zipfile(arg.image) THEN zip_entries(zip_content(arg.image)) ELSE <<>>

Codestreams == {k \in 1..Len(Entries) : is_jpeg2000(Entries[k])}

\* C25: when the pixel bytes start with PK the entries of the archive are
\* scanned for one with the box-container or the codestream signature; if
\* one matches its bytes are the payload under the codestream transfer
\* syntax; if none does, or the archive cannot be opened, the outer bytes
\* are kept under the generic uncompressed transfer syntax
C25_Archive ==
    Assembled /\ arg.site = "xa_data" /\ startswith(arg.image, PK) =>
        IF Codestreams # {}
        THEN /\ FileMeta[TransferSyntaxUID] = Scalar(JPEG2000Lossless)
             /\ \E k \in Codestreams :
                  Dataset[PixelData] = Scalar(encapsulate(Entries[k]))
        ELSE /\ FileMeta[TransferSyntaxUID] = Scalar(ExplicitVRLittleEndian)
             /\ StoredDirectly

\* what does hold: the same when the outer bytes hold no ftyp in their
\* first 64 bytes and no entry that begins with FF D8 comes before the
\* first codestream
C25_FirstEntry ==
    Assembled /\ arg.site = "xa_data" /\ startswith(arg.image, PK)
              /\ ~is_jpeg2000(arg.image)
              /\ (\A k \in 1..Len(Entries) :
                    startswith(Entries[k], SOI) => \E j \in Codestreams : j < k) =>
        IF Codestreams # {}
        THEN /\ FileMeta[TransferSyntaxUID] = Scalar(JPEG2000Lossless)
             /\ \E k \in Codestreams :
                  Dataset[PixelData] = Scalar(encapsulate(Entries[k]))
        ELSE /\ FileMeta[TransferSyntaxUID] = Scalar(ExplicitVRLittleEndian)
             /\ StoredDirectly

\* C26: the archive path is taken only when the pixel bytes begin with PK:
\* bytes that hold PK after their start, and no other signature, go
\* through the uncompressed classification
C26_ExplicitSignature ==
    Assembled /\ arg.site = "xa_data" /\ NoSignature /\ Contains(arg.image, PK) =>
        /\ FileMeta[TransferSyntaxUID] = Scalar(ExplicitVRLittleEndian)
        /\ StoredDirectly
        /\ Rows \notin InputTags => Rows \notin DOMAIN Dataset

\* what does hold: bytes without PK in their first 256 bytes go through the
\* uncompressed classification
C26_NoPK ==
    Assembled /\ arg.site = "xa_data" /\ NoSignature /\ ~is_zip_encapsulated(arg.image) =>
        /\ FileMeta[TransferSyntaxUID] = Scalar(ExplicitVRLittleEndian)
        /\ StoredDirectly
        /\ Rows \notin InputTags => Rows \notin DOMAIN Dataset

\* the objects of the state that have resolved their directory
HasPath == {s \in 1..Len(series) : series[s].path # None}

\* C28: for every description and every number the directory that get
\* resolves is a direct child of the study directory
C28_Child ==
    arg = NoArg => \A s \in HasPath : Parent(series[s].path) = StudyDir

\* what does hold: the same for the objects whose description, sanitized,
\* names something, and for those with a number
C28_Named ==
    arg = NoArg =>
        \A s \in HasPath :
            \/ series[s].desc # <<>> /\ series[s].number = NoNumber
                  /\ pathify(series[s].desc) \in {<<>>, <<".">>}
            \/ Parent(series[s].path) = StudyDir

(***************************************************************************)
(* _browser.py: run_with_browser and the module's shared browser.  Every   *)
(* await of the coroutine is a step, so that calls of several tasks        *)
(* interleave there.  out holds the module globals and the calls.          *)
(***************************************************************************)
MaxCalls == 3

Calls == 1..arg.calls

InBrowser == arg.fn = "run_with_browser"

At(c, label) == InBrowser /\ c \in Calls /\ out.pc[c] = label

Goto(c, label) == [out EXCEPT !.pc[c] = label]

\* the call leaves run_with_browser, returning or raising what it holds
Leave(o, c) == [o EXCEPT !.pc[c] = IF o.err[c] = "" THEN "done" ELSE "raised"]

StillBrowser == UNCHANGED <<dirs, files, ro, series, pending, lastErr, ret, op, arg>>

InitBrowser ==
    /\ NoCrawl
    /\ \E n \in 1..MaxCalls : arg = [fn |-> "run_with_browser", calls |-> n]
    /\ out = [driver_instance |-> FALSE, browser |-> "unbound", launched |-> 0,
              contexts |-> {},
              pc  |-> [c \in Calls |-> "idle"],
              err |-> [c \in Calls |-> ""],
              ran |-> [c \in Calls |-> 0]]

\* if not _driver_instance: _driver_instance = async_playwright()
CallStart(c) ==
    /\ At(c, "idle")
    /\ out' = IF ~out.driver_instance
              THEN [Goto(c, "aenter") EXCEPT !.driver_instance = TRUE]
              ELSE Goto(c, "new_context")
    /\ StillBrowser

\* _playwright = await _driver_instance.__aenter__()
Aenter(c) ==
    /\ At(c, "aenter")
    /\ out' = Goto(c, "launch")
    /\ StillBrowser

\* _browser = await launch_browser(_playwright); launch_browser raises when
\* no browser can be started, and that leaves the call before its try
launch_browser(c) ==
    /\ At(c, "launch")
    /\ \E started \in BOOLEAN :
         out' = IF started
                THEN [Goto(c, "new_context") EXCEPT
                         !.browser = "live", !.launched = out.launched + 1]
                ELSE [out EXCEPT !.pc[c] = "raised", !.err[c] = "LaunchError"]
    /\ StillBrowser

\* async with await _browser.new_context(**kwargs) as context: an unbound
\* _browser raises NameError here and again in the finally block; a closed
\* browser refuses the context and the finally block runs
new_context(c) ==
    /\ At(c, "new_context")
    /\ out' = CASE out.browser = "live" ->
                     [Goto(c, "run") EXCEPT !.contexts = out.contexts \cup {c}]
                [] out.browser = "unbound" ->
                     [out EXCEPT !.pc[c] = "raised", !.err[c] = "NameError"]
                [] OTHER ->
                     [Goto(c, "finally") EXCEPT !.err[c] = "TargetClosedError"]
    /\ StillBrowser

\* return await crawler.run(context): the crawler returns or raises
crawler_run(c) ==
    /\ At(c, "run")
    /\ \E failed \in BOOLEAN :
         out' = [Goto(c, "context_exit") EXCEPT
                    !.ran[c] = out.launched,
                    !.err[c] = IF failed THEN "CrawlerError" ELSE ""]
    /\ StillBrowser

\* leaving the async with closes the context
context_exit(c) ==
    /\ At(c, "context_exit")
    /\ out' = [Goto(c, "finally") EXCEPT !.contexts = out.contexts \ {c}]
    /\ StillBrowser

\* finally: if len(_browser.contexts) == 0: await _browser.close()
Finally(c) ==
    /\ At(c, "finally")
    /\ out' = IF out.contexts = {}
              THEN [Goto(c, "aexit") EXCEPT !.browser = "closed"]
              ELSE Leave(out, c)
    /\ StillBrowser

\* await _driver_instance.__aexit__(); _driver_instance keeps its value
Aexit(c) ==
    /\ At(c, "aexit")
    /\ out' = Leave(out, c)
    /\ StillBrowser

NextBrowser ==
    \E c \in 1..MaxCalls :
        \/ CallStart(c)
        \/ Aenter(c)
        \/ launch_browser(c)
        \/ new_context(c)
        \/ crawler_run(c)
        \/ context_exit(c)
        \/ Finally(c)
        \/ Aexit(c)

SpecBrowser == InitBrowser /\ [][NextBrowser]_vars

\* the calls that have left run_with_browser
Left == {c \in Calls : out.pc[c] \in {"done", "raised"}}

\* C30: after any sequence of run_with_browser calls every call has run its
\* crawler in a live browser (one launched when none was alive, a fresh one
\* after the shared browser was closed); only a call whose own launch failed
\* is excused
C30_LiveBrowser ==
    InBrowser => \A c \in Left : out.err[c] # "LaunchError" => out.ran[c] # 0

\* what does hold: the browser is closed only when no context is left open
C30_ClosedAtLast ==
    InBrowser /\ out.browser = "closed" => out.contexts = {}

\* and why a later call finds no live browser: over all the calls of a
\* process at most one browser is ever launched
C30_OneLaunch ==
    InBrowser => out.launched <= 1

\* the sequential case: the first call has returned, the browser is closed,
\* and the next call was refused its context
C30_AfterClose ==
    /\ InBrowser
    /\ arg.calls >= 2
    /\ out.pc[1] = "done"
    /\ out.pc[2] = "raised" /\ out.err[2] = "TargetClosedError"
    /\ out.contexts = {}

(***************************************************************************)
(* Concurrent callers of SeriesDirectory.get.  Each caller is a thread     *)
(* inside get; a step is one read or write of the object's _path or one    *)
(* activation of make_unique_dir (one mkdir of the operating system, which *)
(* is atomic: the study directory exists, so parents never applies).  out  *)
(* holds the callers: where each is, the object it uses, the path it is    *)
(* trying or has created, what its get returned.                           *)
(***************************************************************************)
MaxCallers == 3

InRace == arg.fn = "get"

Callers == 1..arg.callers

In(t, label) == InRace /\ t \in Callers /\ out.pc[t] = label

StillRace == UNCHANGED <<files, ro, pending, lastErr, ret, op, arg>>

\* the first `share` callers use object 1, every other caller its own object
Shared(n, share) == [t \in 1..n |-> IF t <= share THEN 1 ELSE t]

InitRace ==
    /\ \E n \in 2..MaxCallers, k \in 0..1 :
         /\ dirs = {Cwd, DownloadDir, StudyDir} \cup PreDirs(k)
         /\ series = [s \in 1..n |-> NewObject(StudyDir, NoNumber, <<"X">>, n, TRUE)]
         /\ \E share \in 1..n :
              /\ arg = [fn |-> "get", callers |-> n, obj |-> Shared(n, share)]
              /\ out = [pc    |-> [t \in 1..n |-> "test"],
                        path  |-> [t \in 1..n |-> None],
                        depth |-> [t \in 1..n |-> 0],
                        made  |-> [t \in 1..n |-> None],
                        got   |-> [t \in 1..n |-> None],
                        err   |-> [t \in 1..n |-> ""]]
    /\ files = {}
    /\ ro = {}
    /\ pending = NoCall
    /\ lastErr = ""
    /\ ret = None
    /\ op = Op("init", 0, <<>>)

\* get: if not self._path: self.make_dir(), which calls
\* make_unique_dir(self._suggested)
GetTest(t) ==
    /\ In(t, "test")
    /\ out' = IF series[arg.obj[t]].path = None
              THEN [out EXCEPT !.pc[t] = "make_unique_dir",
                               !.path[t] = series[arg.obj[t]].suggested,
                               !.depth[t] = 1]
              ELSE [out EXCEPT !.pc[t] = "path"]
    /\ UNCHANGED <<dirs, series>>
    /\ StillRace

\* one activation of make_unique_dir in the caller's thread
MakeUniqueDir(t) ==
    /\ In(t, "make_unique_dir")
    /\ \E a \in {make_unique_dir(out.path[t], out.depth[t], dirs, files, ro)} :
         /\ dirs' = a.dirs
         /\ out' = CASE a.kind = "return" ->
                          [out EXCEPT !.pc[t] = "assign", !.made[t] = a.path]
                     [] a.kind = "raise" ->
                          [out EXCEPT !.pc[t] = "raised", !.err[t] = a.err]
                     [] OTHER ->
                          [out EXCEPT !.path[t] = a.path, !.depth[t] = @ + 1]
    /\ UNCHANGED series
    /\ StillRace

\* make_dir: self._path = <what make_unique_dir returned>
Assign(t) ==
    /\ In(t, "assign")
    /\ series' = [series EXCEPT ![arg.obj[t]].path = out.made[t],
                                ![arg.obj[t]].made = @ \cup {out.made[t]}]
    /\ out' = [out EXCEPT !.pc[t] = "path"]
    /\ UNCHANGED dirs
    /\ StillRace

\* get: file_path = self._path / base.zfill(width); return file_path
GetPath(t) ==
    /\ In(t, "path")
    /\ out' = [out EXCEPT
                 !.pc[t] = "done",
                 !.got[t] = Append(series[arg.obj[t]].path,
                                   FileName(series[arg.obj[t]].width, t - 1, Ext_dcm))]
    /\ UNCHANGED <<dirs, series>>
    /\ StillRace

NextRace ==
    \E t \in 1..MaxCallers :
        \/ GetTest(t)
        \/ MakeUniqueDir(t)
        \/ Assign(t)
        \/ GetPath(t)

SpecRace == InitRace /\ [][NextRace]_vars

\* the threads are scheduled: a caller that can take a step takes it
SpecRaceFair == SpecRace /\ WF_vars(NextRace)

\* pairs of callers of one object that both found its _path unset and have
\* both come back from make_unique_dir
Racing ==
    {p \in Callers \X Callers :
        /\ p[1] < p[2]
        /\ arg.obj[p[1]] = arg.obj[p[2]]
        /\ out.made[p[1]] # None /\ out.made[p[2]] # None}

\* C24: two callers making the first get on the same unique-mode object, both
\* before the directory is resolved: two different directories are created
\* (and the two calls can return paths in different directories: C24_Witness)
C24_TwoDirectories ==
    InRace =>
        \A p \in Racing :
            /\ out.made[p[1]] # out.made[p[2]]
            /\ {out.made[p[1]], out.made[p[2]]} \subseteq dirs

\* both calls have returned, with paths in different directories
C24_Witness ==
    /\ InRace
    /\ \E p \in Racing :
         /\ out.pc[p[1]] = "done" /\ out.pc[p[2]] = "done"
         /\ Parent(out.got[p[1]]) # Parent(out.got[p[2]])

\* the other outcome of the same race: both calls return paths in the
\* directory assigned last, the other directory is left without files
C24_SameDirectory ==
    /\ InRace
    /\ \E p \in Racing :
         /\ out.pc[p[1]] = "done" /\ out.pc[p[2]] = "done"
         /\ Parent(out.got[p[1]]) = Parent(out.got[p[2]])

\* callers of different objects
Apart == {p \in Callers \X Callers : p[1] < p[2] /\ arg.obj[p[1]] # arg.obj[p[2]]}

AllDone == InRace /\ \A t \in Callers : out.pc[t] = "done"

OwnDirectory ==
    InRace =>
        /\ \A t \in Callers : out.err[t] = "" /\ out.pc[t] # "raised"
        /\ \A p \in Apart :
              out.made[p[1]] # None /\ out.made[p[2]] # None =>
                  /\ out.made[p[1]] # out.made[p[2]]
                  /\ out.got[p[1]] # None /\ out.got[p[2]] # None =>
                        Parent(out.got[p[1]]) # Parent(out.got[p[2]])
        /\ \A s1, s2 \in 1..Len(series) :
              s1 # s2 /\ series[s1].path # None => series[s1].path # series[s2].path

C27_EachItsOwn == []OwnDirectory /\ <>AllDone

\* three objects, one caller each, all resolved
C27_Witness ==
    /\ AllDone
    /\ arg.callers = 3
    /\ \A p \in Callers \X Callers : p[1] # p[2] => arg.obj[p[1]] # arg.obj[p[2]]
    /\ Cardinality({Parent(out.got[t]) : t \in Callers}) = 3

====
